---- MODULE Spec2Model ----
(***************************************************************************)
(* Forgotten Hall team search of StarRailAutoProxy                          *)
(* (src/src/sr/app/routine/forgotten_hall_app.py): the team modules, the   *)
(* node and mission teams, the tiered score and the depth-first search of  *)
(* ForgottenHallApp.search_best_mission_team, stepped one frame at a time. *)
(*                                                                         *)
(* All scores are integers: the only non-integer literal of the source,    *)
(* 0.9, is always multiplied by 1e7 or by k * 1e3 and divided by a count   *)
(* in 1..4, and every intermediate value is an integer that a double       *)
(* represents exactly, so the float arithmetic of the source and the       *)
(* integer arithmetic below agree.                                         *)
(***************************************************************************)
EXTENDS Integers, Sequences, FiniteSets, TLC

VARIABLES
    node_combat_types,     \* required combat types of each node (input)
    config_module_list,    \* configured team modules, in order (input)
    current_mission_team,  \* the mission team the search mutates in place
    best_mission_team,     \* None or the deep copy of the best leaf so far
    stack,                 \* active dfs frames, innermost first
    pc,                    \* "search", "done"; "score_current", ... when scoring only
    result,                \* return value of search_best_mission_team
    run_record,            \* the ForgottenHallRecord of the app
    combine_op             \* None or the StatusCombineOperation of the round being run

vars == <<node_combat_types, config_module_list, current_mission_team,
          best_mission_team, stack, pc, result, run_record, combine_op>>

(***************************************************************************)
(* Bounds of the checked instances.                                        *)
(***************************************************************************)
MaxNodes == 2
MaxModules == 3
MaxFairNodes == 2
MaxPhaseNodes == 2

(***************************************************************************)
(* Python's Optional: None is the empty sequence, a value v is <<v>>.      *)
(***************************************************************************)
None == << >>
Some(v) == <<v>>
TheValue(o) == o[1]

(***************************************************************************)
(* ForgottenHallRecord: the total star, the star of each mission written   *)
(* so far (a dict, here a function on the missions written) and the run    *)
(* status.                                                                 *)
(***************************************************************************)
EmptyDict == << >>

NewRecord == [star |-> 0, mission_stars |-> EmptyDict, status |-> "WAIT"]

(***************************************************************************)
(* Character registry (sr.const.character_const).  A character id is       *)
(* <<path, combat type, serial>>; the registry maps it to its path and     *)
(* combat type.                                                            *)
(***************************************************************************)
ATTACK_PATH_LIST == {"Destruction", "Hunt", "Erudition"}
SURVIVAL_PATH_LIST == {"Preservation", "Abundance"}
SUPPORT_PATH_LIST == {"Harmony", "Nihility"}

SILVERWOLF == <<"Nihility", "Quantum", 0>>

CharacterPath(character_id) == character_id[1]
CharacterCombatType(character_id) == character_id[2]

is_attack_character(character_id) == CharacterPath(character_id) \in ATTACK_PATH_LIST
is_survival_character(character_id) == CharacterPath(character_id) \in SURVIVAL_PATH_LIST
is_support_character(character_id) == CharacterPath(character_id) \in SUPPORT_PATH_LIST

(***************************************************************************)
(* Sequence helpers for Python lists.                                      *)
(***************************************************************************)
Range(s) == {s[i] : i \in 1..Len(s)}

InList(x, s) == \E i \in 1..Len(s) : s[i] = x

\* list.remove(x): drops the first element equal to x
ListRemove(s, x) ==
    LET i == CHOOSE j \in 1..Len(s) : s[j] = x /\ \A k \in 1..(j - 1) : s[k] # x
    IN  [k \in 1..(Len(s) - 1) |-> IF k < i THEN s[k] ELSE s[k + 1]]

RECURSIVE SumSeq(_)
SumSeq(s) == IF s = << >> THEN 0 ELSE Head(s) + SumSeq(Tail(s))

\* all the orders in which a set can be listed
Orderings(S) ==
    {s \in [1..Cardinality(S) -> S] : \A i, j \in 1..Cardinality(S) : s[i] = s[j] => i = j}

(***************************************************************************)
(* ForgottenHallTeamModule                                                 *)
(***************************************************************************)
TeamModule(ids) == [character_id_list |-> ids]

module_with_attack(module) ==
    \E i \in 1..Len(module.character_id_list) : is_attack_character(module.character_id_list[i])

module_with_silver(module) == InList(SILVERWOLF, module.character_id_list)

module_with_survival(module) ==
    \E i \in 1..Len(module.character_id_list) : is_survival_character(module.character_id_list[i])

module_with_support(module) ==
    \E i \in 1..Len(module.character_id_list) : is_support_character(module.character_id_list[i])

(***************************************************************************)
(* ForgottenHallNodeTeam                                                   *)
(***************************************************************************)
NewNodeTeam == [module_list |-> << >>, character_id_set |-> {}, node_dfs_phase |-> 0]

node_existed_characters(node_team, character_id_list) ==
    \E i \in 1..Len(character_id_list) : character_id_list[i] \in node_team.character_id_set

node_character_cnt(node_team) == Cardinality(node_team.character_id_set)

\* a bug that appends the module and forgets its characters
add_module_list_only(node_team, module) ==
    [node_team EXCEPT !.module_list = Append(@, module)]

add_module(node_team, module) ==
    [node_team EXCEPT !.module_list = Append(@, module),
                      !.character_id_set = @ \cup Range(module.character_id_list)]

\* set.remove of each id in turn; the first missing id raises and stops the loop
RECURSIVE RemoveIds(_, _)
RemoveIds(id_set, id_list) ==
    IF id_list = << >> \/ Head(id_list) \notin id_set THEN id_set
    ELSE RemoveIds(id_set \ {Head(id_list)}, Tail(id_list))

\* a bug that removes the module and leaves its characters in the set
pop_module_list_only(node_team, module) ==
    IF ~InList(module, node_team.module_list) THEN node_team
    ELSE [node_team EXCEPT !.module_list = ListRemove(@, module)]

pop_module(node_team, module) ==
    IF ~InList(module, node_team.module_list) THEN node_team
    ELSE [node_team EXCEPT !.module_list = ListRemove(@, module),
                           !.character_id_set = RemoveIds(@, module.character_id_list)]

(***************************************************************************)
(* ForgottenHallNodeTeamScore                                              *)
(***************************************************************************)
\* the combat types the node answers to once Silverwolf has implanted the
\* team's own types, and how many types she had to add
\* a bug that counts the characters of unneeded types, not the types
cal_need_combat_type_per_character(character_set, need_combat_type_list) ==
    IF SILVERWOLF \in character_set
    THEN LET not_in_need == {d \in character_set :
                                ~InList(CharacterCombatType(d), need_combat_type_list)}
         IN  [combat_type_not_need_cnt |-> Cardinality(not_in_need),
              cal |-> Range(need_combat_type_list)
                         \cup {CharacterCombatType(c) : c \in not_in_need}]
    ELSE [combat_type_not_need_cnt |-> 0,
          cal |-> Range(need_combat_type_list)]

cal_need_combat_type(character_set, need_combat_type_list) ==
    IF SILVERWOLF \in character_set
    THEN LET team_combat_type_not_in_need ==
                 {CharacterCombatType(c) : c \in {d \in character_set :
                      ~InList(CharacterCombatType(d), need_combat_type_list)}}
         IN  [combat_type_not_need_cnt |-> Cardinality(team_combat_type_not_in_need),
              cal |-> Range(need_combat_type_list) \cup team_combat_type_not_in_need]
    ELSE [combat_type_not_need_cnt |-> 0,
          cal |-> Range(need_combat_type_list)]

\* a bug that tallies a character of a required combat type under Silverwolf too
cal_character_cnt_twice(character_set, origin_combat_type_list, cal_combat_type_set) ==
    LET attack == {c \in character_set : CharacterPath(c) \in ATTACK_PATH_LIST}
        other == {c \in character_set : CharacterPath(c) \notin ATTACK_PATH_LIST
                                         /\ CharacterPath(c) \in SURVIVAL_PATH_LIST
                                                                 \cup SUPPORT_PATH_LIST}
        origin(S) == {c \in S : InList(CharacterCombatType(c), origin_combat_type_list)}
        silver(S) == {c \in S : CharacterCombatType(c) \in cal_combat_type_set}
    IN  [attack_cnt |-> Cardinality(attack),
         survival_cnt |-> Cardinality({c \in other : CharacterPath(c) \in SURVIVAL_PATH_LIST}),
         support_cnt |-> Cardinality({c \in other : CharacterPath(c) \notin SURVIVAL_PATH_LIST}),
         combat_type_attack_cnt |-> Cardinality(origin(attack)),
         combat_type_attack_cnt_under_silver |-> Cardinality(silver(attack)),
         combat_type_other_cnt |-> Cardinality(origin(other)),
         combat_type_other_cnt_under_silver |-> Cardinality(silver(other))]

cal_character_cnt(character_set, origin_combat_type_list, cal_combat_type_set) ==
    LET attack == {c \in character_set : CharacterPath(c) \in ATTACK_PATH_LIST}
        survival == {c \in character_set : CharacterPath(c) \notin ATTACK_PATH_LIST
                                            /\ CharacterPath(c) \in SURVIVAL_PATH_LIST}
        support == {c \in character_set : CharacterPath(c) \notin ATTACK_PATH_LIST
                                           /\ CharacterPath(c) \notin SURVIVAL_PATH_LIST
                                           /\ CharacterPath(c) \in SUPPORT_PATH_LIST}
        origin(S) == {c \in S : InList(CharacterCombatType(c), origin_combat_type_list)}
        silver(S) == {c \in S : ~InList(CharacterCombatType(c), origin_combat_type_list)
                                 /\ CharacterCombatType(c) \in cal_combat_type_set}
    IN  [attack_cnt |-> Cardinality(attack),
         survival_cnt |-> Cardinality(survival),
         support_cnt |-> Cardinality(support),
         combat_type_attack_cnt |-> Cardinality(origin(attack)),
         combat_type_attack_cnt_under_silver |-> Cardinality(silver(attack)),
         combat_type_other_cnt |-> Cardinality(origin(survival \cup support)),
         combat_type_other_cnt_under_silver |-> Cardinality(silver(survival \cup support))]

cnt_base == 100000000
attack_combat_type_base == 10000000
attack_normal_base == 1000000
survival_base == 100000
support_base == 10000
combat_type_base == 1000

\* a bug that leaves out the discount of the converted match
silver_attack_score_undiscounted(combat_type_not_need_cnt) ==
    attack_combat_type_base \div combat_type_not_need_cnt

\* 0.9 * attack_combat_type_base / combat_type_not_need_cnt
silver_attack_score(combat_type_not_need_cnt) ==
    (9 * attack_combat_type_base) \div (10 * combat_type_not_need_cnt)

\* 0.9 * matched * combat_type_base / combat_type_not_need_cnt
silver_combat_type_score(matched, combat_type_not_need_cnt) ==
    (9 * matched * combat_type_base) \div (10 * combat_type_not_need_cnt)

node_attack_score(c, combat_type_not_need_cnt) ==
    (IF c.attack_cnt > 0 THEN attack_normal_base ELSE 0)
    + (IF c.combat_type_attack_cnt > 0 THEN attack_combat_type_base
       ELSE IF c.combat_type_attack_cnt_under_silver > 0 /\ combat_type_not_need_cnt > 0
            THEN silver_attack_score(combat_type_not_need_cnt)
            ELSE 0)

\* a bug that weighs the head count with the base of the attack tier
node_cnt_score_wrong_base(c) ==
    (c.attack_cnt + c.survival_cnt + c.support_cnt) * attack_combat_type_base

node_cnt_score(c) == (c.attack_cnt + c.survival_cnt + c.support_cnt) * cnt_base

\* a bug that weighs the survival tier with the base of the combat type tier
node_survival_score_wrong_base(c) ==
    IF c.survival_cnt > 0 THEN combat_type_base ELSE 0

node_survival_score(c) == IF c.survival_cnt > 0 THEN survival_base ELSE 0

node_support_score(c) == c.support_cnt * support_base

node_combat_type_score(c, combat_type_not_need_cnt) ==
    (c.combat_type_attack_cnt + c.combat_type_other_cnt) * combat_type_base
    + (IF combat_type_not_need_cnt > 0
       THEN silver_combat_type_score(c.combat_type_attack_cnt_under_silver
                                     + c.combat_type_other_cnt_under_silver,
                                     combat_type_not_need_cnt)
       ELSE 0)

cal_total_score(c, combat_type_not_need_cnt) ==
    LET cnt_score == node_cnt_score(c)
        attack_score == node_attack_score(c, combat_type_not_need_cnt)
        survival_score == node_survival_score(c)
        support_score == node_support_score(c)
        combat_type_score == node_combat_type_score(c, combat_type_not_need_cnt)
    IN  [cnt_score |-> cnt_score,
         attack_score |-> attack_score,
         survival_score |-> survival_score,
         support_score |-> support_score,
         combat_type_score |-> combat_type_score,
         total_score |-> cnt_score + attack_score + survival_score
                         + support_score + combat_type_score]

\* ForgottenHallNodeTeamScore(node_team, combat_type_list)
NodeTeamScore(node_team, combat_type_list) ==
    LET need == cal_need_combat_type(node_team.character_id_set, combat_type_list)
        c == cal_character_cnt(node_team.character_id_set, combat_type_list, need.cal)
    IN  cal_total_score(c, need.combat_type_not_need_cnt)

(***************************************************************************)
(* ForgottenHallMissionTeam                                                *)
(***************************************************************************)
ZeroScore == [cnt_score |-> 0, attack_score |-> 0, survival_score |-> 0,
              support_score |-> 0, combat_type_score |-> 0, total_score |-> 0]

NewMissionTeam(combat_types) ==
    [node_team_list |-> [i \in 1..Len(combat_types) |-> NewNodeTeam],
     score |-> ZeroScore]

existed_characters(mission_team, character_id_list) ==
    \E i \in 1..Len(mission_team.node_team_list) :
        node_existed_characters(mission_team.node_team_list[i], character_id_list)

node_capacity == 4

\* a bug that looks for the module's characters in the target node only
can_add_to_node_target_only(mission_team, node_num, module) ==
    /\ ~(node_character_cnt(mission_team.node_team_list[node_num + 1])
            + Len(module.character_id_list) > node_capacity)
    /\ ~node_existed_characters(mission_team.node_team_list[node_num + 1],
                                module.character_id_list)

\* a bug that refuses a module that would fill the node exactly
can_add_to_node_off_by_one(mission_team, node_num, module) ==
    /\ ~(node_character_cnt(mission_team.node_team_list[node_num + 1])
            + Len(module.character_id_list) >= node_capacity)
    /\ ~existed_characters(mission_team, module.character_id_list)

\* the check of add_to_node; node_num counts from 0 as in the source
can_add_to_node(mission_team, node_num, module) ==
    /\ ~(node_character_cnt(mission_team.node_team_list[node_num + 1])
            + Len(module.character_id_list) > node_capacity)
    /\ ~existed_characters(mission_team, module.character_id_list)

\* a bug that adds the module before it looks for its characters in the mission
add_to_node_capacity_only(mission_team, node_num, module) ==
    IF node_character_cnt(mission_team.node_team_list[node_num + 1])
          + Len(module.character_id_list) > node_capacity
    THEN mission_team
    ELSE [mission_team EXCEPT !.node_team_list[node_num + 1] = add_module(@, module)]

add_to_node(mission_team, node_num, module) ==
    IF can_add_to_node(mission_team, node_num, module)
    THEN [mission_team EXCEPT !.node_team_list[node_num + 1] = add_module(@, module)]
    ELSE mission_team

pop_from_node(mission_team, node_num, module) ==
    IF node_num >= Len(mission_team.node_team_list) THEN mission_team
    ELSE [mission_team EXCEPT !.node_team_list[node_num + 1] = pop_module(@, module)]

\* a bug that is content with one occupied node
valid_mission_team_any_node(mission_team) ==
    \E i \in 1..Len(mission_team.node_team_list) :
        node_character_cnt(mission_team.node_team_list[i]) # 0

valid_mission_team(mission_team) ==
    \A i \in 1..Len(mission_team.node_team_list) :
        node_character_cnt(mission_team.node_team_list[i]) # 0

character_cnt(mission_team) ==
    SumSeq([i \in 1..Len(mission_team.node_team_list) |->
                node_character_cnt(mission_team.node_team_list[i])])

AddScore(total, node) ==
    [cnt_score |-> total.cnt_score + node.cnt_score,
     attack_score |-> total.attack_score + node.attack_score,
     survival_score |-> total.survival_score + node.survival_score,
     support_score |-> total.support_score + node.support_score,
     combat_type_score |-> total.combat_type_score + node.combat_type_score,
     total_score |-> total.total_score + node.total_score]

\* the loop of update_score over the nodes, from node i (counted from 0) on
RECURSIVE SumNodeScores(_, _, _, _)
SumNodeScores(mission_team, combat_types, i, total) ==
    IF i >= Len(combat_types) THEN total
    ELSE SumNodeScores(mission_team, combat_types, i + 1,
                       AddScore(total, NodeTeamScore(mission_team.node_team_list[i + 1],
                                                     combat_types[i + 1])))

\* a bug that returns from an invalid team before it zeroes the score
update_score_keeps_stale(mission_team, combat_types) ==
    IF ~valid_mission_team(mission_team)
    THEN mission_team
    ELSE [mission_team EXCEPT !.score = SumNodeScores(mission_team, combat_types, 0, ZeroScore)]

\* a bug that adds the nodes' scores to the score of the last call
update_score_accumulates(mission_team, combat_types) ==
    IF ~valid_mission_team(mission_team)
    THEN [mission_team EXCEPT !.score = ZeroScore]
    ELSE [mission_team EXCEPT !.score = SumNodeScores(mission_team, combat_types, 0,
                                                      mission_team.score)]

update_score(mission_team, combat_types) ==
    IF ~valid_mission_team(mission_team)
    THEN [mission_team EXCEPT !.score = ZeroScore]
    ELSE [mission_team EXCEPT !.score = SumNodeScores(mission_team, combat_types, 0, ZeroScore)]

(***************************************************************************)
(* Inputs of the checked instances: the characters, the configured team    *)
(* modules and the nodes' required combat types.                           *)
(***************************************************************************)
AttackFire == <<"Destruction", "Fire", 1>>
AttackIce == <<"Destruction", "Ice", 1>>
SurvivalFire == <<"Preservation", "Fire", 1>>
SurvivalIce == <<"Preservation", "Ice", 1>>
SupportFire == <<"Harmony", "Fire", 1>>
SupportIce == <<"Harmony", "Ice", 1>>
AttackQuantum == <<"Erudition", "Quantum", 1>>
AttackWind == <<"Hunt", "Wind", 1>>

ModulePoolList ==
    << TeamModule(<<AttackFire>>),
       TeamModule(<<SurvivalFire, SupportIce>>),
       TeamModule(<<SupportFire, SurvivalIce>>),
       TeamModule(<<SILVERWOLF, AttackIce>>),
       TeamModule(<<AttackFire, SurvivalFire, SupportFire, SupportIce>>) >>

ModulePool == Range(ModulePoolList)

NeedLists == { <<"Fire">>, <<"Ice">> }

SeqsUpTo(S, n) == UNION {[1..k -> S] : k \in 0..n}

\* module lists without repeated modules, at most MaxModules long
ModuleLists ==
    {l \in SeqsUpTo(ModulePool, MaxModules) : \A i, j \in 1..Len(l) : l[i] = l[j] => i = j}

NodeCombatTypes == SeqsUpTo(NeedLists, MaxNodes)

(***************************************************************************)
(* search_best_mission_team                                                *)
(***************************************************************************)
total_node_cnt == Len(node_combat_types)

\* a dfs activation: its module index, the node its loop is at, where it is
Frame(idx) == [current_module_idx |-> idx, node_idx |-> 0, at |-> "entry", temp_phase |-> 0]

all_node_phase_above(mission_team, phase) ==
    \A i \in 1..Len(mission_team.node_team_list) :
        ~(mission_team.node_team_list[i].node_dfs_phase <= phase)

prune_character_cap == 8

\* a bug that answers True while there is no best team yet
impossibly_greater_before_best(current, best, combat_types) ==
    IF ~valid_mission_team(current) THEN [pruned |-> FALSE, team |-> current]
    ELSE [pruned |-> TRUE, team |-> current]

\* impossibly_greater as a function of the current and the best team: the
\* answer, and the current team as the call leaves it (its score refreshed)
impossibly_greater(current, best, combat_types) ==
    IF ~valid_mission_team(current) THEN [pruned |-> FALSE, team |-> current]
    ELSE IF best = None THEN [pruned |-> FALSE, team |-> current]
    ELSE
      LET team == update_score(current, combat_types)
          cur == team.score
          bst == TheValue(best).score
          all_node_after_attack_and_silver == all_node_phase_above(team, 1)
          all_node_after_survival == all_node_phase_above(team, 2)
          room == prune_character_cap - character_cnt(team)
          pruned ==
            IF all_node_after_attack_and_silver /\ cur.attack_score < bst.attack_score
            THEN TRUE
            ELSE IF all_node_after_survival
            THEN IF cur.survival_score < bst.survival_score THEN TRUE
                 ELSE IF cur.support_score + room * support_base < bst.support_score THEN TRUE
                 ELSE IF cur.support_score + room * support_base = bst.support_score
                 THEN cur.combat_type_score + room * combat_type_base < bst.combat_type_score
                 ELSE FALSE
            ELSE FALSE
      IN  [pruned |-> pruned, team |-> team]

\* a bug that does not look at the attackers: an attack module counts as support
next_node_phase_ignores_attack(module) ==
    IF module_with_silver(module) THEN 1
    ELSE IF module_with_survival(module) THEN 2
    ELSE 3

\* a bug that does not look at the survivors: a survival module counts as support
next_node_phase_ignores_survival(module) ==
    IF module_with_attack(module) THEN 0
    ELSE IF module_with_silver(module) THEN 1
    ELSE 3

next_node_phase(module) ==
    IF module_with_attack(module) THEN 0
    ELSE IF module_with_silver(module) THEN 1
    ELSE IF module_with_survival(module) THEN 2
    ELSE 3

\* a bug that lets a node take a module of any category
node_accepts_phase_always(node_team, phase) == TRUE

\* the test of the loop of dfs: the module's category is not below the node's phase
\* a bug that wants a later category than the node's, not the same or a later one
node_accepts_phase_strict(node_team, phase) == phase > node_team.node_dfs_phase

node_accepts_phase(node_team, phase) == phase >= node_team.node_dfs_phase

\* a bug that recurses without advancing
NextModuleIdx_stuck(idx) == idx

\* the index the recursive calls of dfs are made with
NextModuleIdx(idx) == idx + 1

\* a bug that lets a leaf of equal total score replace the best team
better_than_best_or_equal(current, best) ==
    best = None \/ current.score.total_score >= TheValue(best).score.total_score

\* the comparison that lets a leaf replace the best team
better_than_best(current, best) ==
    best = None \/ current.score.total_score > TheValue(best).score.total_score

\* model_copy(deep=True)
model_copy(mission_team) == mission_team

\* a bug that copies without deep=True: the copy keeps the node team list of
\* the team the search goes on mutating
best_after_mutation_shallow(best, mutated) ==
    IF best = None THEN None
    ELSE Some([TheValue(best) EXCEPT !.node_team_list = mutated.node_team_list])

\* the stored best once the in-progress team, of which it is a deep copy, has
\* been mutated: it shares nothing with it
best_after_mutation(best, mutated) == best

\* ForgottenHallMissionTeam.character_list: each node lists its character
\* id set in the set's iteration order, which the hash seed of the run fixes
character_lists(mission_team) ==
    {l \in [1..Len(mission_team.node_team_list) ->
              UNION {Orderings(mission_team.node_team_list[i].character_id_set) :
                         i \in 1..Len(mission_team.node_team_list)}] :
        \A i \in 1..Len(mission_team.node_team_list) :
            l[i] \in Orderings(mission_team.node_team_list[i].character_id_set)}

Top == stack[1]
ActiveModule == config_module_list[Top.current_module_idx + 1]
Searching == pc = "search" /\ stack # << >>

Init ==
    /\ node_combat_types \in NodeCombatTypes
    /\ config_module_list \in ModuleLists
    /\ current_mission_team = NewMissionTeam(node_combat_types)
    /\ best_mission_team = None
    /\ stack = <<Frame(0)>>
    /\ pc = "search"
    /\ result = None
    /\ run_record = NewRecord
    /\ combine_op = None

\* dfs reached the end of the module list: score a valid team, keep it if better
Leaf ==
    /\ Searching
    /\ Top.at = "entry"
    /\ Top.current_module_idx = Len(config_module_list)
    /\ IF valid_mission_team(current_mission_team)
       THEN LET scored == update_score(current_mission_team, node_combat_types)
            IN  /\ current_mission_team' = scored
                /\ best_mission_team' = IF better_than_best(scored, best_mission_team)
                                        THEN Some(model_copy(scored))
                                        ELSE best_after_mutation(best_mission_team, scored)
       ELSE UNCHANGED <<current_mission_team, best_mission_team>>
    /\ stack' = Tail(stack)
    /\ UNCHANGED <<node_combat_types, config_module_list, pc, result>>
    /\ UNCHANGED <<run_record, combine_op>>

\* impossibly_greater answered True: the call returns at once
Prune ==
    /\ Searching
    /\ Top.at = "entry"
    /\ Top.current_module_idx # Len(config_module_list)
    /\ LET verdict == impossibly_greater(current_mission_team, best_mission_team,
                                         node_combat_types)
       IN  /\ verdict.pruned
           /\ current_mission_team' = verdict.team
    /\ best_mission_team' = best_after_mutation(best_mission_team, current_mission_team')
    /\ stack' = Tail(stack)
    /\ UNCHANGED <<node_combat_types, config_module_list, pc, result>>
    /\ UNCHANGED <<run_record, combine_op>>

\* impossibly_greater answered False: the loop over the nodes starts
Enter ==
    /\ Searching
    /\ Top.at = "entry"
    /\ Top.current_module_idx # Len(config_module_list)
    /\ LET verdict == impossibly_greater(current_mission_team, best_mission_team,
                                         node_combat_types)
       IN  /\ ~verdict.pruned
           /\ current_mission_team' = verdict.team
    /\ best_mission_team' = best_after_mutation(best_mission_team, current_mission_team')
    /\ stack' = <<[Top EXCEPT !.at = "loop", !.node_idx = 0]>> \o Tail(stack)
    /\ UNCHANGED <<node_combat_types, config_module_list, pc, result>>
    /\ UNCHANGED <<run_record, combine_op>>

\* the node takes the module: stamp its phase and recurse on the next module
AddModule ==
    /\ Searching
    /\ Top.at = "loop"
    /\ Top.node_idx < total_node_cnt
    /\ LET node_team == current_mission_team.node_team_list[Top.node_idx + 1]
           phase == next_node_phase(ActiveModule)
       IN  /\ node_accepts_phase(node_team, phase)
           /\ can_add_to_node(current_mission_team, Top.node_idx, ActiveModule)
           /\ current_mission_team' =
                 [add_to_node(current_mission_team, Top.node_idx, ActiveModule)
                     EXCEPT !.node_team_list[Top.node_idx + 1].node_dfs_phase = phase]
           /\ stack' = <<Frame(NextModuleIdx(Top.current_module_idx)),
                         [Top EXCEPT !.at = "after_add",
                                     !.temp_phase = node_team.node_dfs_phase]>>
                       \o Tail(stack)
    /\ best_mission_team' = best_after_mutation(best_mission_team, current_mission_team')
    /\ UNCHANGED <<node_combat_types, config_module_list, pc, result>>
    /\ UNCHANGED <<run_record, combine_op>>

\* the node does not take the module: wrong phase, no room or a character in use
RejectNode ==
    /\ Searching
    /\ Top.at = "loop"
    /\ Top.node_idx < total_node_cnt
    /\ LET node_team == current_mission_team.node_team_list[Top.node_idx + 1]
       IN  ~(/\ node_accepts_phase(node_team, next_node_phase(ActiveModule))
             /\ can_add_to_node(current_mission_team, Top.node_idx, ActiveModule))
    /\ stack' = <<[Top EXCEPT !.node_idx = @ + 1]>> \o Tail(stack)
    /\ UNCHANGED <<node_combat_types, config_module_list, current_mission_team,
                   best_mission_team, pc, result>>
    /\ UNCHANGED <<run_record, combine_op>>

\* back from the recursion below an added module: pop it, restore the phase
Undo ==
    /\ Searching
    /\ Top.at = "after_add"
    /\ current_mission_team' =
          [pop_from_node(current_mission_team, Top.node_idx, ActiveModule)
              EXCEPT !.node_team_list[Top.node_idx + 1].node_dfs_phase = Top.temp_phase]
    /\ best_mission_team' = best_after_mutation(best_mission_team, current_mission_team')
    /\ stack' = <<[Top EXCEPT !.at = "loop", !.node_idx = @ + 1]>> \o Tail(stack)
    /\ UNCHANGED <<node_combat_types, config_module_list, pc, result>>
    /\ UNCHANGED <<run_record, combine_op>>

\* after the loop: recurse on the next module without using this one
SkipModule ==
    /\ Searching
    /\ Top.at = "loop"
    /\ Top.node_idx = total_node_cnt
    /\ stack' = <<Frame(NextModuleIdx(Top.current_module_idx)),
                  [Top EXCEPT !.at = "after_skip"]>> \o Tail(stack)
    /\ UNCHANGED <<node_combat_types, config_module_list, current_mission_team,
                   best_mission_team, pc, result>>
    /\ UNCHANGED <<run_record, combine_op>>

\* back from the skipping recursion: the call returns
Return ==
    /\ Searching
    /\ Top.at = "after_skip"
    /\ stack' = Tail(stack)
    /\ UNCHANGED <<node_combat_types, config_module_list, current_mission_team,
                   best_mission_team, pc, result>>
    /\ UNCHANGED <<run_record, combine_op>>

\* the outermost dfs returned: None, or the character lists of the best team
Finish ==
    /\ pc = "search"
    /\ stack = << >>
    /\ IF best_mission_team = None
       THEN result' = None
       ELSE \E l \in character_lists(TheValue(best_mission_team)) : result' = Some(l)
    /\ pc' = "done"
    /\ UNCHANGED <<node_combat_types, config_module_list, current_mission_team,
                   best_mission_team, stack>>
    /\ UNCHANGED <<run_record, combine_op>>

Next ==
    \/ Leaf
    \/ Prune
    \/ Enter
    \/ AddModule
    \/ RejectNode
    \/ Undo
    \/ SkipModule
    \/ Return
    \/ Finish

Spec == Init /\ [][Next]_vars

\* The search as it is scheduled: one synchronous call that always takes its
\* next step.  The instances are the leading modules of the pool over at most
\* MaxFairNodes nodes that all need Fire.
InitFair ==
    /\ Init
    /\ Len(node_combat_types) <= MaxFairNodes
    /\ \A i \in 1..Len(node_combat_types) : node_combat_types[i] = <<"Fire">>
    /\ \A i \in 1..Len(config_module_list) : config_module_list[i] = ModulePoolList[i]

FairSpec == InitFair /\ [][Next]_vars /\ WF_vars(Next)

(***************************************************************************)
(* The search over modules of every category: an attacker and an attacker  *)
(* with Silverwolf (0), Silverwolf alone (1), a survivor (2) and two        *)
(* supports (3), in any order, over at most MaxPhaseNodes nodes that all    *)
(* need Fire.                                                              *)
(***************************************************************************)
PhasePoolList ==
    << TeamModule(<<AttackFire>>),
       TeamModule(<<AttackQuantum, SILVERWOLF>>),
       TeamModule(<<SILVERWOLF>>),
       TeamModule(<<SurvivalFire>>),
       TeamModule(<<SupportIce>>),
       TeamModule(<<SupportFire>>) >>

PhaseModuleLists ==
    {l \in SeqsUpTo(Range(PhasePoolList), MaxModules) :
        \A i, j \in 1..Len(l) : l[i] = l[j] => i = j}

InitPhase ==
    /\ node_combat_types \in {[i \in 1..n |-> <<"Fire">>] : n \in 0..MaxPhaseNodes}
    /\ config_module_list \in PhaseModuleLists
    /\ current_mission_team = NewMissionTeam(node_combat_types)
    /\ best_mission_team = None
    /\ stack = <<Frame(0)>>
    /\ pc = "search"
    /\ result = None
    /\ run_record = NewRecord
    /\ combine_op = None

SpecPhase == InitPhase /\ [][Next]_vars

(***************************************************************************)
(* search_best_mission_team as a function of its inputs: the best team the *)
(* depth-first search ends with.  with_prune = FALSE is the same search    *)
(* with the impossibly_greater test taken out.                             *)
(***************************************************************************)
RECURSIVE dfs_best(_, _, _, _, _, _)
RECURSIVE dfs_nodes(_, _, _, _, _, _, _)

dfs_best(combat_types, module_list, with_prune, current, idx, best) ==
    IF idx = Len(module_list)
    THEN IF valid_mission_team(current)
         THEN LET scored == update_score(current, combat_types)
              IN  IF better_than_best(scored, best) THEN Some(model_copy(scored)) ELSE best
         ELSE best
    ELSE IF with_prune /\ impossibly_greater(current, best, combat_types).pruned
    THEN best
    ELSE dfs_best(combat_types, module_list, with_prune, current, NextModuleIdx(idx),
                  dfs_nodes(combat_types, module_list, with_prune, current, idx, 0, best))

\* the loop over the nodes of one dfs call, from node_idx on
dfs_nodes(combat_types, module_list, with_prune, current, idx, node_idx, best) ==
    IF node_idx >= Len(combat_types) THEN best
    ELSE LET module == module_list[idx + 1]
             phase == next_node_phase(module)
             node_team == current.node_team_list[node_idx + 1]
             below ==
                 IF node_accepts_phase(node_team, phase)
                    /\ can_add_to_node(current, node_idx, module)
                 THEN dfs_best(combat_types, module_list, with_prune,
                               [add_to_node(current, node_idx, module)
                                   EXCEPT !.node_team_list[node_idx + 1].node_dfs_phase = phase],
                               NextModuleIdx(idx), best)
                 ELSE best
         IN  dfs_nodes(combat_types, module_list, with_prune, current, idx, node_idx + 1, below)

search_best(combat_types, module_list, with_prune) ==
    dfs_best(combat_types, module_list, with_prune, NewMissionTeam(combat_types), 0, None)

\* The same search keeping, besides the best team, the scored teams of the
\* valid leaves in the order dfs visits them.
RECURSIVE dfs_visit(_, _, _, _, _)
RECURSIVE dfs_visit_nodes(_, _, _, _, _, _)

dfs_visit(combat_types, module_list, current, idx, acc) ==
    IF idx = Len(module_list)
    THEN IF valid_mission_team(current)
         THEN LET scored == update_score(current, combat_types)
              IN  [best |-> IF better_than_best(scored, acc.best)
                            THEN Some(model_copy(scored)) ELSE acc.best,
                   leaves |-> Append(acc.leaves, scored)]
         ELSE acc
    ELSE IF acc.best # None /\ impossibly_greater(current, acc.best, combat_types).pruned
    THEN acc
    ELSE dfs_visit(combat_types, module_list, current, NextModuleIdx(idx),
                   dfs_visit_nodes(combat_types, module_list, current, idx, 0, acc))

dfs_visit_nodes(combat_types, module_list, current, idx, node_idx, acc) ==
    IF node_idx >= Len(combat_types) THEN acc
    ELSE LET module == module_list[idx + 1]
             phase == next_node_phase(module)
             node_team == current.node_team_list[node_idx + 1]
             below ==
                 IF node_accepts_phase(node_team, phase)
                    /\ can_add_to_node(current, node_idx, module)
                 THEN dfs_visit(combat_types, module_list,
                                [add_to_node(current, node_idx, module)
                                    EXCEPT !.node_team_list[node_idx + 1].node_dfs_phase = phase],
                                NextModuleIdx(idx), acc)
                 ELSE acc
         IN  dfs_visit_nodes(combat_types, module_list, current, idx, node_idx + 1, below)

visited_leaves(combat_types, module_list) ==
    dfs_visit(combat_types, module_list, NewMissionTeam(combat_types), 0,
              [best |-> None, leaves |-> << >>]).leaves

\* The teams dfs can reach from a call with this team and module index, the
\* team of the call included, when no branch is pruned.
RECURSIVE teams_below(_, _, _)
teams_below(module_list, current, idx) ==
    IF idx = Len(module_list) THEN {current}
    ELSE LET module == module_list[idx + 1]
             phase == next_node_phase(module)
             added == {[add_to_node(current, node_idx, module)
                           EXCEPT !.node_team_list[node_idx + 1].node_dfs_phase = phase] :
                       node_idx \in {n \in 0..(Len(current.node_team_list) - 1) :
                           /\ node_accepts_phase(current.node_team_list[n + 1], phase)
                           /\ can_add_to_node(current, n, module)}}
         IN  {current}
                \cup teams_below(module_list, current, NextModuleIdx(idx))
                \cup UNION {teams_below(module_list, team, NextModuleIdx(idx)) : team \in added}

\* The teams at the leaves of dfs, in the order dfs comes to them, with the
\* impossibly_greater test taken out.
RECURSIVE dfs_leaves(_, _, _)
RECURSIVE dfs_leaves_nodes(_, _, _, _)

dfs_leaves(module_list, current, idx) ==
    IF idx = Len(module_list) THEN <<current>>
    ELSE dfs_leaves_nodes(module_list, current, idx, 0)
            \o dfs_leaves(module_list, current, NextModuleIdx(idx))

dfs_leaves_nodes(module_list, current, idx, node_idx) ==
    IF node_idx >= Len(current.node_team_list) THEN << >>
    ELSE LET module == module_list[idx + 1]
             phase == next_node_phase(module)
             node_team == current.node_team_list[node_idx + 1]
             below ==
                 IF node_accepts_phase(node_team, phase)
                    /\ can_add_to_node(current, node_idx, module)
                 THEN dfs_leaves(module_list,
                                 [add_to_node(current, node_idx, module)
                                     EXCEPT !.node_team_list[node_idx + 1].node_dfs_phase = phase],
                                 NextModuleIdx(idx))
                 ELSE << >>
         IN  below \o dfs_leaves_nodes(module_list, current, idx, node_idx + 1)


\* what search_best_mission_team may return for these inputs
search_outputs(combat_types, module_list) ==
    LET best == search_best(combat_types, module_list, TRUE)
    IN  IF best = None THEN {None}
        ELSE {Some(l) : l \in character_lists(TheValue(best))}

\* total score of an optional team; -1 stands for None
TotalOf(best) == IF best = None THEN -1 ELSE TheValue(best).score.total_score

(***************************************************************************)
(* Brute force over every placement of the modules: place[i] is the node   *)
(* (from 1) module i goes to, 0 when it is left out.                       *)
(***************************************************************************)
RECURSIVE PlaceFrom(_, _, _, _)
PlaceFrom(team, module_list, place, i) ==
    IF team = None \/ i > Len(module_list) THEN team
    ELSE IF place[i] = 0 THEN PlaceFrom(team, module_list, place, i + 1)
    ELSE IF can_add_to_node(TheValue(team), place[i] - 1, module_list[i])
    THEN PlaceFrom(Some(add_to_node(TheValue(team), place[i] - 1, module_list[i])),
                   module_list, place, i + 1)
    ELSE None

ValidAssignments(combat_types, module_list) ==
    LET placed == {PlaceFrom(Some(NewMissionTeam(combat_types)), module_list, place, 1) :
                       place \in [1..Len(module_list) -> 0..Len(combat_types)]}
    IN  {update_score(TheValue(t), combat_types) :
             t \in {u \in placed : u # None /\ valid_mission_team(TheValue(u))}}

SetMax(S) == CHOOSE x \in S : \A y \in S : y <= x

BruteForceTotal(combat_types, module_list) ==
    LET totals == {t.score.total_score : t \in ValidAssignments(combat_types, module_list)}
    IN  IF totals = {} THEN -1 ELSE SetMax(totals)

\* the module list read in another order
Permuted(module_list, order) == [i \in 1..Len(module_list) |-> module_list[order[i]]]

(***************************************************************************)
(* Scoring alone: two mission teams over the same nodes, each scored by    *)
(* update_score.  The teams are drawn from a family that covers every pair *)
(* of node shapes for one and two nodes and repeats the second shape on    *)
(* the further nodes of longer missions.                                   *)
(***************************************************************************)
ScoreNodeCounts == {1, 2, 9, 10}

\* <<path, combat type>> of the characters of a shape; Silverwolf is one character
ScoreKinds ==
    << <<"Destruction", "Fire">>, <<"Destruction", "Ice">>, <<"Preservation", "Fire">>,
       <<"Harmony", "Ice">>, <<"Nihility", "Quantum">> >>

SilverKind == <<CharacterPath(SILVERWOLF), CharacterCombatType(SILVERWOLF)>>

\* a shape: one kind, or two different kinds
Shapes ==
    {<<ScoreKinds[i]>> : i \in 1..Len(ScoreKinds)}
    \cup {<<ScoreKinds[p[1]], ScoreKinds[p[2]]>> :
             p \in {q \in (1..Len(ScoreKinds)) \X (1..Len(ScoreKinds)) : q[1] < q[2]}}

ShapesWithoutSilver == {sh \in Shapes : ~InList(SilverKind, sh)}

\* the module of a shape at a node: the node's own characters of these kinds
ShapeModule(shape, node_num) ==
    TeamModule([i \in 1..Len(shape) |->
                   IF shape[i] = SilverKind THEN SILVERWOLF
                   ELSE <<shape[i][1], shape[i][2], node_num + 1>>])

RECURSIVE AddShapes(_, _, _, _)
AddShapes(mission_team, first_shape, other_shape, node_num) ==
    IF node_num >= Len(mission_team.node_team_list) THEN mission_team
    ELSE AddShapes(add_to_node(mission_team, node_num,
                               ShapeModule(IF node_num = 0 THEN first_shape ELSE other_shape,
                                           node_num)),
                   first_shape, other_shape, node_num + 1)

ScoreTeams(combat_types) ==
    {AddShapes(NewMissionTeam(combat_types), first_shape, other_shape, 0) :
        first_shape \in Shapes, other_shape \in ShapesWithoutSilver}

InitScore ==
    /\ node_combat_types \in {[i \in 1..n |-> <<"Fire">>] : n \in ScoreNodeCounts}
    /\ config_module_list = << >>
    /\ current_mission_team \in ScoreTeams(node_combat_types)
    /\ best_mission_team \in {Some(t) : t \in ScoreTeams(node_combat_types)}
    /\ stack = << >>
    /\ pc = "score_current"
    /\ result = None
    /\ run_record = NewRecord
    /\ combine_op = None

ScoreCurrent ==
    /\ pc = "score_current"
    /\ current_mission_team' = update_score(current_mission_team, node_combat_types)
    /\ pc' = "score_best"
    /\ UNCHANGED <<node_combat_types, config_module_list, best_mission_team, stack, result>>
    /\ UNCHANGED <<run_record, combine_op>>

ScoreBest ==
    /\ pc = "score_best"
    /\ best_mission_team' = Some(update_score(TheValue(best_mission_team), node_combat_types))
    /\ pc' = "scored"
    /\ UNCHANGED <<node_combat_types, config_module_list, current_mission_team, stack, result>>
    /\ UNCHANGED <<run_record, combine_op>>

NextScore ==
    \/ ScoreCurrent
    \/ ScoreBest

SpecScore == InitScore /\ [][NextScore]_vars

(***************************************************************************)
(* Scoring of one node: a mission of a single node whose team is any set   *)
(* of at most four characters, scored by update_score.                     *)
(***************************************************************************)
NodeCharacters ==
    {AttackFire, AttackIce, AttackQuantum, AttackWind, SILVERWOLF,
     SurvivalFire, SurvivalIce, SupportIce}

NodeNeedLists == { <<"Fire">>, <<"Ice">>, <<"Fire", "Ice">> }

\* the one-node mission team whose node holds these characters as one module
OneNodeTeam(combat_types, character_set) ==
    IF character_set = {} THEN NewMissionTeam(combat_types)
    ELSE add_to_node(NewMissionTeam(combat_types), 0,
                     TeamModule(CHOOSE l \in Orderings(character_set) : TRUE))

InitNode ==
    /\ node_combat_types \in {<<need>> : need \in NodeNeedLists}
    /\ config_module_list = << >>
    /\ current_mission_team \in
          {OneNodeTeam(node_combat_types, character_set) :
              character_set \in {S \in SUBSET NodeCharacters : Cardinality(S) <= node_capacity}}
    /\ best_mission_team = None
    /\ stack = << >>
    /\ pc = "node_score"
    /\ result = None
    /\ run_record = NewRecord
    /\ combine_op = None

ScoreNode ==
    /\ pc = "node_score"
    /\ current_mission_team' = update_score(current_mission_team, node_combat_types)
    /\ pc' = "node_scored"
    /\ UNCHANGED <<node_combat_types, config_module_list, best_mission_team, stack, result>>
    /\ UNCHANGED <<run_record, combine_op>>

NextNode == ScoreNode

SpecNode == InitNode /\ [][NextNode]_vars

(***************************************************************************)
(* Properties of the search and of the score.                              *)
(***************************************************************************)
Cur == current_mission_team.score
Best == TheValue(best_mission_team).score

\* C1: a result that is not None gives every node at least one and at most
\* four characters, and no character id to two nodes.
ResultIsValid ==
    (pc = "done" /\ result # None) =>
        LET lists == TheValue(result)
        IN  /\ Len(lists) = total_node_cnt
            /\ \A i \in 1..Len(lists) : Len(lists[i]) >= 1 /\ Len(lists[i]) <= 4
            /\ \A i, j \in 1..Len(lists) :
                  i # j => Range(lists[i]) \cap Range(lists[j]) = {}

\* a result over several nodes, one of them full
ResultIsValidWitness ==
    /\ pc = "done"
    /\ result # None
    /\ total_node_cnt >= 2
    /\ \E i \in 1..total_node_cnt : Len(TheValue(result)[i]) = 4

\* C2: the search with the impossibly_greater prune ends with the same total
\* score as the same search without it, and with None exactly when it does.
PruneIsSound ==
    pc = "done" =>
        TotalOf(best_mission_team)
            = TotalOf(search_best(node_combat_types, config_module_list, FALSE))

\* C3: the total score of the result is the maximum over all valid
\* assignments of the modules to the nodes.
ResultIsOptimal ==
    pc = "done" =>
        TotalOf(best_mission_team) = BruteForceTotal(node_combat_types, config_module_list)

\* C4: every permutation of the module list gives a result of the same total
\* score, and None exactly when this order gives None.
ModuleOrderIsIrrelevant ==
    pc = "done" =>
        \A order \in Orderings(1..Len(config_module_list)) :
            TotalOf(search_best(node_combat_types,
                                Permuted(config_module_list, order), TRUE))
                = TotalOf(best_mission_team)

\* C5: of two valid mission teams over the same nodes, whatever their number,
\* the one with the higher count score has the higher total score.
CountTierDominates ==
    (pc = "scored" /\ Cur.cnt_score > Best.cnt_score) =>
        Cur.total_score > Best.total_score

\* C5 as amended: the same for missions of fewer than 10 nodes.
CountTierDominatesBelowTenNodes ==
    (pc = "scored" /\ total_node_cnt < 10 /\ Cur.cnt_score > Best.cnt_score) =>
        Cur.total_score > Best.total_score

\* nine nodes, more characters on one side and more attack score on the other
CountTierWitness ==
    /\ pc = "scored"
    /\ total_node_cnt = 9
    /\ Cur.cnt_score > Best.cnt_score
    /\ Cur.attack_score < Best.attack_score

LowerTiers(score) ==
    <<score.attack_score, score.survival_score, score.support_score, score.combat_type_score>>

RECURSIVE LexGreater(_, _)
LexGreater(x, y) ==
    IF x = << >> THEN FALSE
    ELSE Head(x) > Head(y) \/ (Head(x) = Head(y) /\ LexGreater(Tail(x), Tail(y)))

\* C6: of two valid mission teams with equal count score, the total score
\* orders them as the tuple (attack, survival, support, combat type) does
\* lexicographically.
LowerTiersAreLexicographic ==
    (pc = "scored" /\ Cur.cnt_score = Best.cnt_score) =>
        ((Cur.total_score > Best.total_score)
            <=> LexGreater(LowerTiers(Cur), LowerTiers(Best)))

\* C6 as amended: the same for missions of at most two nodes.
LowerTiersAreLexicographicUpToTwoNodes ==
    (pc = "scored" /\ total_node_cnt <= 2 /\ Cur.cnt_score = Best.cnt_score) =>
        ((Cur.total_score > Best.total_score)
            <=> LexGreater(LowerTiers(Cur), LowerTiers(Best)))

\* two nodes, equal head count, more attack score against more survival score
LowerTiersWitness ==
    /\ pc = "scored"
    /\ total_node_cnt = 2
    /\ Cur.cnt_score = Best.cnt_score
    /\ Cur.attack_score > Best.attack_score
    /\ Cur.survival_score < Best.survival_score

\* C7: every output the search can return for these inputs is the output
\* returned, down to the order of each node's characters.
OutputIsDeterministic ==
    pc = "done" =>
        \A output \in search_outputs(node_combat_types, config_module_list) :
            output = result

\* C8: the search finishes; every recursive call of dfs has the index of its
\* caller plus one, and no call has an index above the number of modules.
SearchTerminates ==
    /\ <>(pc = "done")
    /\ [][Len(stack') > Len(stack) =>
            /\ Len(stack') = Len(stack) + 1
            /\ stack'[1].current_module_idx = stack[1].current_module_idx + 1]_vars
    /\ [](\A i \in 1..Len(stack) :
              stack[i].current_module_idx <= Len(config_module_list))

\* the search has returned on an instance of several modules and nodes
SearchTerminatesWitness ==
    /\ pc = "done"
    /\ Len(config_module_list) >= 2
    /\ total_node_cnt >= 2

AtLeaf ==
    /\ Searching
    /\ Top.at = "entry"
    /\ Top.current_module_idx = Len(config_module_list)

CapacityBoundary ==
    [][(/\ Searching
        /\ Top.at = "loop"
        /\ Top.node_idx < total_node_cnt
        /\ next_node_phase(ActiveModule)
              >= current_mission_team.node_team_list[Top.node_idx + 1].node_dfs_phase
        /\ \A n \in 1..total_node_cnt :
              Range(ActiveModule.character_id_list)
                 \cap current_mission_team.node_team_list[n].character_id_set = {})
       => LET node_team == current_mission_team.node_team_list[Top.node_idx + 1]
              after == current_mission_team'.node_team_list[Top.node_idx + 1]
              c == Cardinality(node_team.character_id_set)
              k == Len(ActiveModule.character_id_list)
          IN  /\ c + k <= 4 =>
                    /\ after.module_list = Append(node_team.module_list, ActiveModule)
                    /\ after.character_id_set
                          = node_team.character_id_set
                               \cup Range(ActiveModule.character_id_list)
              /\ c + k > 4 => current_mission_team' = current_mission_team]_vars

\* a node filled to exactly four characters by its second module
CapacityBoundaryWitness ==
    /\ Searching
    /\ \E n \in 1..total_node_cnt :
          /\ Len(current_mission_team.node_team_list[n].module_list) = 2
          /\ Cardinality(current_mission_team.node_team_list[n].character_id_set) = 4

\* the module would take the node above four characters
OverCapacity(node_num, module) ==
    Cardinality(current_mission_team.node_team_list[node_num + 1].character_id_set)
        + Len(module.character_id_list) > 4

\* the nodes (from 1) that hold a character of the module
NodesSharing(module) ==
    {n \in 1..total_node_cnt :
        Range(module.character_id_list)
            \cap current_mission_team.node_team_list[n].character_id_set # {}}

\* C11: add_to_node with a module that would exceed the node's four
\* characters, or with a character that some node of the mission holds,
\* returns False and changes no node; the dfs loop then leaves the mission
\* team as it is and goes on to the next node without recursing.
RejectedAddHasNoEffect ==
    /\ [](Searching =>
            \A node_num \in 0..(total_node_cnt - 1) :
                \A i \in 1..Len(config_module_list) :
                    LET module == config_module_list[i]
                    IN  (OverCapacity(node_num, module) \/ NodesSharing(module) # {})
                           => /\ ~can_add_to_node(current_mission_team, node_num, module)
                              /\ add_to_node(current_mission_team, node_num, module)
                                    = current_mission_team)
    /\ [][(/\ Searching
            /\ Top.at = "loop"
            /\ Top.node_idx < total_node_cnt
            /\ (OverCapacity(Top.node_idx, ActiveModule) \/ NodesSharing(ActiveModule) # {}))
           => /\ current_mission_team' = current_mission_team
              /\ Len(stack') = Len(stack)
              /\ stack'[1].node_idx = Top.node_idx + 1]_vars

\* the loop offers a node with room a module one of whose characters is in
\* another node, and only there
RejectedAddWitness ==
    /\ Searching
    /\ Top.at = "loop"
    /\ Top.node_idx < total_node_cnt
    /\ node_accepts_phase(current_mission_team.node_team_list[Top.node_idx + 1],
                          next_node_phase(ActiveModule))
    /\ ~OverCapacity(Top.node_idx, ActiveModule)
    /\ NodesSharing(ActiveModule) # {}
    /\ (Top.node_idx + 1) \notin NodesSharing(ActiveModule)

\* the characters of the single node of a one-node mission
NodeSet == current_mission_team.node_team_list[1].character_id_set

\* the combat types of the node's characters that the node does not require
ExtraTypes ==
    {CharacterCombatType(c) : c \in {d \in NodeSet :
        CharacterCombatType(d) \notin Range(node_combat_types[1])}}

\* the node has an attacker, and no attacker of a required combat type
OnlyUnmatchedAttackers ==
    /\ \E c \in NodeSet : CharacterPath(c) \in ATTACK_PATH_LIST
    /\ \A c \in NodeSet : CharacterPath(c) \in ATTACK_PATH_LIST
            => CharacterCombatType(c) \notin Range(node_combat_types[1])

\* C12: with Silverwolf in the node, combat_type_not_need_cnt is the number
\* of distinct combat types of the node's characters that are not required,
\* and a node whose attackers are all of unrequired types scores
\* 1e6 + 0.9 * 1e7 / combat_type_not_need_cnt of attack; without Silverwolf
\* the count is 0, nobody is counted under Silverwolf and such a node scores
\* 1e6; Silverwolf with one Quantum attacker under a Fire requirement gives
\* a count of 1 and an attack score of 1e6 + 0.9 * 1e7.
SilverwolfWidening ==
    (pc = "node_scored" /\ NodeSet # {}) =>
        LET need == cal_need_combat_type(NodeSet, node_combat_types[1])
            cnts == cal_character_cnt(NodeSet, node_combat_types[1], need.cal)
        IN  /\ SILVERWOLF \in NodeSet =>
                  /\ need.combat_type_not_need_cnt = Cardinality(ExtraTypes)
                  /\ OnlyUnmatchedAttackers =>
                        Cur.attack_score = 1000000 + (9000000 \div Cardinality(ExtraTypes))
            /\ SILVERWOLF \notin NodeSet =>
                  /\ need.combat_type_not_need_cnt = 0
                  /\ cnts.combat_type_attack_cnt_under_silver = 0
                  /\ cnts.combat_type_other_cnt_under_silver = 0
                  /\ OnlyUnmatchedAttackers => Cur.attack_score = 1000000
            /\ (NodeSet = {SILVERWOLF, AttackQuantum} /\ node_combat_types[1] = <<"Fire">>) =>
                  /\ need.combat_type_not_need_cnt = 1
                  /\ Cur.attack_score = 10000000

\* Silverwolf and a Quantum attacker scored under a Fire requirement
SilverwolfWideningWitness ==
    /\ pc = "node_scored"
    /\ NodeSet = {SILVERWOLF, AttackQuantum}
    /\ node_combat_types[1] = <<"Fire">>
    /\ Cur.attack_score = 10000000

\* the team as the leaf scores it
ScoredLeaf == update_score(current_mission_team, node_combat_types)

\* the first of the leaves with the highest total score
FirstOfMaximum(leaves) ==
    leaves[CHOOSE i \in 1..Len(leaves) :
              /\ \A j \in 1..Len(leaves) :
                    leaves[j].score.total_score <= leaves[i].score.total_score
              /\ \A j \in 1..(i - 1) :
                    leaves[j].score.total_score < leaves[i].score.total_score]

\* C13: the best team is replaced only at a valid leaf whose total score is
\* strictly greater than its own (or when there is none yet), by that leaf's
\* team, so its total score never decreases and a leaf of equal total score
\* leaves it alone; the search ends with the first valid leaf, in the order
\* dfs visits them, whose total score is the maximum over the visited leaves.
FirstBestWins ==
    /\ [][/\ ((best_mission_team' # best_mission_team) =>
                (/\ AtLeaf
                 /\ valid_mission_team(current_mission_team)
                 /\ (best_mission_team = None
                        \/ ScoredLeaf.score.total_score > Best.total_score)
                 /\ best_mission_team' = Some(ScoredLeaf)))
           /\ TotalOf(best_mission_team') >= TotalOf(best_mission_team)
           /\ ((/\ AtLeaf
                /\ valid_mission_team(current_mission_team)
                /\ best_mission_team # None
                /\ ScoredLeaf.score.total_score <= Best.total_score) =>
                (best_mission_team' = best_mission_team))]_vars
    /\ [](pc = "done" =>
            LET leaves == visited_leaves(node_combat_types, config_module_list)
            IN  IF leaves = << >> THEN best_mission_team = None
                ELSE best_mission_team = Some(FirstOfMaximum(leaves)))

\* a valid leaf that ties with the best team and is another team
FirstBestWinsWitness ==
    /\ AtLeaf
    /\ valid_mission_team(current_mission_team)
    /\ best_mission_team # None
    /\ ScoredLeaf.score.total_score = Best.total_score
    /\ ScoredLeaf.node_team_list # TheValue(best_mission_team).node_team_list

\* C14: valid_mission_team holds exactly of the teams whose nodes all have
\* a character; update_score of an invalid team, whatever score it carried,
\* leaves the six score fields 0; the best team, when there is one, is valid.
EmptyNodeNeverScored ==
    /\ valid_mission_team(current_mission_team)
          <=> (\A i \in 1..total_node_cnt :
                  current_mission_team.node_team_list[i].character_id_set # {})
    /\ ~valid_mission_team(current_mission_team)
          => LET score == update_score(current_mission_team, node_combat_types).score
             IN  /\ score.cnt_score = 0
                 /\ score.attack_score = 0
                 /\ score.survival_score = 0
                 /\ score.support_score = 0
                 /\ score.combat_type_score = 0
                 /\ score.total_score = 0
    /\ best_mission_team # None
          => /\ valid_mission_team(TheValue(best_mission_team))
             /\ \A i \in 1..total_node_cnt :
                   TheValue(best_mission_team).node_team_list[i].character_id_set # {}

\* the search, with a best team stored, is at a team that has an empty node
\* and still carries the score of an earlier leaf
EmptyNodeNeverScoredWitness ==
    /\ Searching
    /\ best_mission_team # None
    /\ ~valid_mission_team(current_mission_team)
    /\ current_mission_team.score.total_score > 0
    /\ \E i \in 1..total_node_cnt :
          current_mission_team.node_team_list[i].character_id_set # {}

\* C15: the stored best team changes only by being replaced at a valid leaf,
\* by the team of that leaf; every other step, whatever it does to the
\* in-progress team (add_to_node, pop_from_node, the phase written and
\* restored, update_score), leaves its nodes, phases and scores as they are.
SnapshotIsIndependent ==
    [][/\ (~(AtLeaf /\ valid_mission_team(current_mission_team)))
             => (best_mission_team' = best_mission_team)
       /\ (AtLeaf /\ valid_mission_team(current_mission_team))
             => (\/ best_mission_team' = best_mission_team
                 \/ /\ best_mission_team' = Some(ScoredLeaf)
                    /\ better_than_best(ScoredLeaf, best_mission_team))]_vars

\* a best team is stored and the in-progress team has since been changed in
\* its nodes, its phases and its score
SnapshotIsIndependentWitness ==
    /\ Searching
    /\ best_mission_team # None
    /\ current_mission_team.score # Best
    /\ \E i \in 1..total_node_cnt :
          /\ current_mission_team.node_team_list[i].module_list
                # TheValue(best_mission_team).node_team_list[i].module_list
          /\ current_mission_team.node_team_list[i].node_dfs_phase
                # TheValue(best_mission_team).node_team_list[i].node_dfs_phase

\* the four conditions on the node teams of a mission team
NodeTeamsConsistent(node_team_list) ==
    /\ \A i \in 1..Len(node_team_list) :
          Cardinality(node_team_list[i].character_id_set) <= 4
    /\ \A i, j \in 1..Len(node_team_list) :
          i # j => node_team_list[i].character_id_set
                      \cap node_team_list[j].character_id_set = {}
    /\ \A k \in 1..Len(config_module_list) :
          Cardinality({<<i, p>> \in (1..Len(node_team_list)) \X (1..Len(config_module_list)) :
                          /\ p <= Len(node_team_list[i].module_list)
                          /\ node_team_list[i].module_list[p] = config_module_list[k]}) <= 1
    /\ \A i \in 1..Len(node_team_list) :
          node_team_list[i].character_id_set
              = UNION {Range(node_team_list[i].module_list[p].character_id_list) :
                          p \in 1..Len(node_team_list[i].module_list)}

\* C16: in every state of the search each node holds at most four
\* characters, no character id is in two nodes, each module is in the module
\* list of at most one node, and each node's character set is the union of
\* the character ids of the modules in its module list.
NodesStayConsistent ==
    /\ NodeTeamsConsistent(current_mission_team.node_team_list)
    /\ best_mission_team # None
          => NodeTeamsConsistent(TheValue(best_mission_team).node_team_list)

\* in the middle of the search two nodes are occupied, one by two modules
NodesStayConsistentWitness ==
    /\ Searching
    /\ \E i, j \in 1..total_node_cnt :
          /\ i # j
          /\ Len(current_mission_team.node_team_list[i].module_list) = 2
          /\ Len(current_mission_team.node_team_list[j].module_list) = 1

\* The node teams made of the adds that the calls of these frames (innermost
\* first) have made and not yet undone: a frame waiting under its recursive
\* call after an add holds its module on its node, stamped with the
\* module's category.
RECURSIVE PendingAdds(_)
PendingAdds(frames) ==
    IF frames = << >> THEN NewMissionTeam(node_combat_types).node_team_list
    ELSE LET outer == PendingAdds(Tail(frames))
             frame == Head(frames)
             module == config_module_list[frame.current_module_idx + 1]
         IN  IF frame.at = "after_add"
             THEN [outer EXCEPT ![frame.node_idx + 1] =
                      [add_module(@, module) EXCEPT !.node_dfs_phase = next_node_phase(module)]]
             ELSE outer

\* C17: a call of dfs is entered with the node teams (module lists,
\* character sets, phases) that the pending adds of its callers make up;
\* while it runs its callers' frames do not change; and when it returns, at
\* a leaf, pruned or after its branches, the node teams are again those its
\* callers' pending adds make up, that is, those it was entered with.  In
\* every state the node teams are the pending adds of the stack, so each
\* pop_from_node and phase restore undoes its add exactly; and add_to_node
\* followed by pop_from_node of the same module on the same node gives the
\* team back.
ExactRestoration ==
    /\ [][/\ ((Len(stack') > Len(stack)) =>
                (/\ Tail(Tail(stack')) = Tail(stack)
                 /\ current_mission_team'.node_team_list = PendingAdds(Tail(stack'))))
           /\ ((Len(stack') = Len(stack) /\ stack # << >>) =>
                (Tail(stack') = Tail(stack)))
           /\ ((Len(stack') < Len(stack)) =>
                (/\ stack' = Tail(stack)
                 /\ Top.at # "after_add"
                 /\ current_mission_team'.node_team_list = PendingAdds(Tail(stack))))]_vars
    /\ [](current_mission_team.node_team_list = PendingAdds(stack))
    /\ [](Searching =>
            \A node_num \in 0..(total_node_cnt - 1) :
                \A i \in 1..Len(config_module_list) :
                    can_add_to_node(current_mission_team, node_num, config_module_list[i])
                        => pop_from_node(add_to_node(current_mission_team, node_num,
                                                     config_module_list[i]),
                                         node_num, config_module_list[i])
                              = current_mission_team)

\* a call that tried its module on the nodes and went through the branch
\* without it is about to return to a caller that had added a module
ExactRestorationWitness ==
    /\ Searching
    /\ Top.at = "after_skip"
    /\ Len(stack) >= 2
    /\ stack[2].at = "after_add"
    /\ best_mission_team # None
    /\ \E i \in 1..total_node_cnt :
          Len(current_mission_team.node_team_list[i].module_list) >= 1

\* the categories of the modules of a node are in order and the phase of
\* the node is the category of the last of them
PhaseFollowsModules(node_team) ==
    /\ \A p, q \in 1..Len(node_team.module_list) :
          p < q => next_node_phase(node_team.module_list[p])
                      <= next_node_phase(node_team.module_list[q])
    /\ node_team.node_dfs_phase
          = IF node_team.module_list = << >> THEN 0
            ELSE next_node_phase(node_team.module_list[Len(node_team.module_list)])

\* C18: a module joins a node only when the node's phase is at most the
\* module's category; so in every state the categories of the modules of
\* each node are non-decreasing in the order they were added, and the phase
\* of the node is the category of the last module added, 0 for an empty
\* node.
CategoriesNonDecreasing ==
    /\ [](\A i \in 1..total_node_cnt :
              /\ PhaseFollowsModules(current_mission_team.node_team_list[i])
              /\ best_mission_team # None
                    => PhaseFollowsModules(TheValue(best_mission_team).node_team_list[i]))
    /\ [][\A i \in 1..total_node_cnt :
              (Len(current_mission_team'.node_team_list[i].module_list)
                  > Len(current_mission_team.node_team_list[i].module_list))
              => /\ current_mission_team.node_team_list[i].node_dfs_phase
                       <= next_node_phase(ActiveModule)
                 /\ current_mission_team'.node_team_list[i].module_list
                       = Append(current_mission_team.node_team_list[i].module_list,
                                ActiveModule)]_vars

\* a node took Silverwolf alone (category 1) and then a support (category 3)
CategoriesNonDecreasingWitness ==
    /\ Searching
    /\ \E i \in 1..total_node_cnt :
          /\ Len(current_mission_team.node_team_list[i].module_list) = 2
          /\ next_node_phase(current_mission_team.node_team_list[i].module_list[1]) = 1
          /\ next_node_phase(current_mission_team.node_team_list[i].module_list[2]) = 3
          /\ current_mission_team.node_team_list[i].node_dfs_phase = 3

\* a call of dfs is at its start or in its loop, with the team it was called with
AtCall == Searching /\ Top.at \in {"entry", "loop"}

\* the teams the search can come to below the call it is in
Below == teams_below(config_module_list, current_mission_team, Top.current_module_idx)

ScoreOf(mission_team) == update_score(mission_team, node_combat_types).score

\* C19: from a valid search state in which every node's phase is at least 2,
\* no team the search can reach below it by adding further modules has an
\* attack score above that of the state's team.
AttackDecidedAtPhaseTwo ==
    (/\ AtCall
     /\ valid_mission_team(current_mission_team)
     /\ all_node_phase_above(current_mission_team, 1))
    => \A team \in Below :
          ScoreOf(team).attack_score <= ScoreOf(current_mission_team).attack_score

\* every node is at phase 2 or more and a module can still be added, which
\* takes the attack score down
AttackDecidedWitness ==
    /\ AtCall
    /\ valid_mission_team(current_mission_team)
    /\ all_node_phase_above(current_mission_team, 1)
    /\ \E team \in Below :
          /\ team.node_team_list # current_mission_team.node_team_list
          /\ ScoreOf(team).attack_score < ScoreOf(current_mission_team).attack_score

\* C20: from a valid search state in which every node's phase is at least 3,
\* every team the search can reach below it has the survival score of the
\* state's team.
SurvivalDecidedAtPhaseThree ==
    (/\ AtCall
     /\ valid_mission_team(current_mission_team)
     /\ all_node_phase_above(current_mission_team, 2))
    => \A team \in Below :
          ScoreOf(team).survival_score = ScoreOf(current_mission_team).survival_score

\* every node is at phase 3, the team has a survivor and a module can still
\* be added
SurvivalDecidedWitness ==
    /\ AtCall
    /\ valid_mission_team(current_mission_team)
    /\ all_node_phase_above(current_mission_team, 2)
    /\ ScoreOf(current_mission_team).survival_score > 0
    /\ \E team \in Below : team.node_team_list # current_mission_team.node_team_list

(***************************************************************************)
(* The search over three nodes and support modules of nine characters in   *)
(* all: more characters than the 8 that impossibly_greater reckons with.   *)
(***************************************************************************)
SupportWind == <<"Harmony", "Wind", 1>>
SupportQuantum == <<"Harmony", "Quantum", 1>>
SupportFireTwo == <<"Harmony", "Fire", 2>>
SupportIceTwo == <<"Harmony", "Ice", 2>>
SupportWindTwo == <<"Nihility", "Wind", 2>>
SupportFireThree == <<"Nihility", "Fire", 3>>
SupportIceThree == <<"Nihility", "Ice", 3>>

CapPoolList ==
    << TeamModule(<<SupportFire, SupportIce, SupportWind>>),
       TeamModule(<<SupportFireTwo, SupportIceTwo, SupportWindTwo>>),
       TeamModule(<<SupportFireThree, SupportIceThree>>),
       TeamModule(<<SupportQuantum>>) >>

\* the leading modules of the pool, over three nodes that need Fire
InitCap ==
    /\ node_combat_types = << <<"Fire">>, <<"Fire">>, <<"Fire">> >>
    /\ config_module_list \in {SubSeq(CapPoolList, 1, n) : n \in 0..Len(CapPoolList)}
    /\ current_mission_team = NewMissionTeam(node_combat_types)
    /\ best_mission_team = None
    /\ stack = <<Frame(0)>>
    /\ pc = "search"
    /\ result = None
    /\ run_record = NewRecord
    /\ combine_op = None

SpecCap == InitCap /\ [][Next]_vars

\* the team the call of the k-th frame of the stack was entered with, the
\* adds of the calls below it undone
CallTeam(k) ==
    [node_team_list |-> PendingAdds(SubSeq(stack, k + 1, Len(stack))),
     score |-> ZeroScore]

\* the most that impossibly_greater expects the support score and the
\* combat type score to become below this team
SupportBound(mission_team) ==
    ScoreOf(mission_team).support_score
        + (prune_character_cap - character_cnt(mission_team)) * support_base

CombatTypeBound(mission_team) ==
    ScoreOf(mission_team).combat_type_score
        + (prune_character_cap - character_cnt(mission_team)) * combat_type_base

\* C21: the team of a search state stays within the support bound and the
\* combat type bound of every call it lies below (the call it is in
\* included) whose team is valid with every node at phase 3.
SupportBoundIsUpperBound ==
    Searching =>
        \A k \in 1..Len(stack) :
            (/\ valid_mission_team(CallTeam(k))
             /\ all_node_phase_above(CallTeam(k), 2))
            => /\ ScoreOf(current_mission_team).support_score <= SupportBound(CallTeam(k))
               /\ ScoreOf(current_mission_team).combat_type_score
                     <= CombatTypeBound(CallTeam(k))

\* a call of dfs is at its start, with modules left: impossibly_greater is asked
AtPruneTest ==
    /\ Searching
    /\ Top.at = "entry"
    /\ Top.current_module_idx # Len(config_module_list)

\* C22: impossibly_greater answers False for a team with an empty node and
\* while no best team is stored, whatever the other of the two is; a call
\* of dfs that returns from the prune test, cutting its subtree, had a
\* valid team and a stored best team, and in the two cases the call goes
\* on into its loop over the nodes.
PruneNeedsCandidate ==
    /\ [](/\ ~valid_mission_team(current_mission_team)
             => \A best \in {None, best_mission_team,
                             Some(update_score(current_mission_team, node_combat_types))} :
                   ~impossibly_greater(current_mission_team, best, node_combat_types).pruned
          /\ best_mission_team = None
             => ~impossibly_greater(current_mission_team, best_mission_team,
                                    node_combat_types).pruned)
    /\ [][(AtPruneTest /\ stack' = Tail(stack))
             => (valid_mission_team(current_mission_team) /\ best_mission_team # None)]_vars
    /\ [][(AtPruneTest /\ (~valid_mission_team(current_mission_team)
                              \/ best_mission_team = None))
             => (stack' = <<[Top EXCEPT !.at = "loop"]>> \o Tail(stack))]_vars

\* the prune test is asked about a valid team while there is no best team
PruneNeedsCandidateWitness ==
    /\ AtPruneTest
    /\ valid_mission_team(current_mission_team)
    /\ best_mission_team = None
    /\ total_node_cnt >= 1

\* the node teams of at most four of the characters
NodeSets == {S \in SUBSET NodeCharacters : Cardinality(S) <= node_capacity}

\* the set has an attacker of a combat type the node requires
HasOriginalAttacker(character_set) ==
    \E c \in character_set :
        /\ CharacterPath(c) \in ATTACK_PATH_LIST
        /\ InList(CharacterCombatType(c), node_combat_types[1])

\* the attack score of the node with these characters
AttackScoreOf(character_set) ==
    NodeTeamScore(OneNodeTeam(node_combat_types, character_set).node_team_list[1],
                  node_combat_types[1]).attack_score

\* the number of combat types Silverwolf has to add for these characters
ExtraCntOf(character_set) ==
    cal_need_combat_type(character_set, node_combat_types[1]).combat_type_not_need_cnt

\* C23: a node with an attacker of a required combat type scores 1e6 + 1e7
\* of attack, strictly more than every node without one; and of two nodes
\* without one whose attackers Silverwolf converts, the one with more added
\* combat types scores strictly less, as 0.9 * 1e7 / n falls when n grows.
OriginalBeatsConverted ==
    (pc = "node_scored" /\ NodeSet # {}) =>
        /\ HasOriginalAttacker(NodeSet) =>
              /\ Cur.attack_score = attack_normal_base + attack_combat_type_base
              /\ \A other \in NodeSets :
                    ~HasOriginalAttacker(other) => AttackScoreOf(other) < Cur.attack_score
        /\ (~HasOriginalAttacker(NodeSet) /\ SILVERWOLF \in NodeSet
               /\ \E c \in NodeSet : CharacterPath(c) \in ATTACK_PATH_LIST) =>
              /\ Cur.attack_score
                    = attack_normal_base + silver_attack_score(ExtraCntOf(NodeSet))
              /\ \A other \in NodeSets :
                    (/\ ~HasOriginalAttacker(other)
                     /\ SILVERWOLF \in other
                     /\ \E c \in other : CharacterPath(c) \in ATTACK_PATH_LIST
                     /\ ExtraCntOf(other) > ExtraCntOf(NodeSet))
                    => AttackScoreOf(other) < Cur.attack_score
        /\ \A n, m \in 1..node_capacity :
              n < m => silver_attack_score(m) < silver_attack_score(n)

\* the node has an attacker of a required type next to Silverwolf and an
\* attacker she converts
OriginalBeatsConvertedWitness ==
    /\ pc = "node_scored"
    /\ node_combat_types[1] = <<"Fire">>
    /\ NodeSet = {AttackFire, AttackIce, SILVERWOLF}
    /\ Cur.attack_score = 11000000
    /\ AttackScoreOf({AttackIce, SILVERWOLF}) = 5500000

\* the score of node i of the current team, as ForgottenHallNodeTeamScore gives it
NodeScoreAt(i) ==
    NodeTeamScore(current_mission_team.node_team_list[i], node_combat_types[i])

\* C24: update_score of a valid team gives, whatever score the team carried
\* from an earlier call, five tier scores that are each the sum of the
\* nodes' scores of the tier and a total score that is the sum of the five;
\* the team a valid leaf leaves behind carries that score.
ScoreIsSumOverNodes ==
    /\ [](valid_mission_team(current_mission_team) =>
            LET score == ScoredLeaf.score
                nodes == 1..total_node_cnt
            IN  /\ score.cnt_score = SumSeq([i \in nodes |-> NodeScoreAt(i).cnt_score])
                /\ score.attack_score = SumSeq([i \in nodes |-> NodeScoreAt(i).attack_score])
                /\ score.survival_score
                      = SumSeq([i \in nodes |-> NodeScoreAt(i).survival_score])
                /\ score.support_score = SumSeq([i \in nodes |-> NodeScoreAt(i).support_score])
                /\ score.combat_type_score
                      = SumSeq([i \in nodes |-> NodeScoreAt(i).combat_type_score])
                /\ score.total_score
                      = score.cnt_score + score.attack_score + score.survival_score
                           + score.support_score + score.combat_type_score
                /\ score = update_score([current_mission_team EXCEPT !.score = ZeroScore],
                                        node_combat_types).score)
    /\ [][(AtLeaf /\ valid_mission_team(current_mission_team))
             => (current_mission_team'.score = ScoredLeaf.score)]_vars

\* a valid leaf over two nodes whose team still carries the score of an
\* earlier call, which is not the score of the team
ScoreIsSumOverNodesWitness ==
    /\ AtLeaf
    /\ total_node_cnt = 2
    /\ valid_mission_team(current_mission_team)
    /\ Cur # ZeroScore
    /\ Cur # ScoredLeaf.score

\* the tallies of these characters in the scored node
TalliesOf(character_set) ==
    cal_character_cnt(character_set, node_combat_types[1],
                      cal_need_combat_type(NodeSet, node_combat_types[1]).cal)

\* how often the four combat type counters count these characters
MatchTallies(character_set) ==
    LET c == TalliesOf(character_set)
    IN  c.combat_type_attack_cnt + c.combat_type_attack_cnt_under_silver
           + c.combat_type_other_cnt + c.combat_type_other_cnt_under_silver

\* C25: the attackers, survivors and supports of a node add up to its
\* characters, so its cnt_score is 1e8 times their number; each character
\* is tallied in one role, and in one of the four combat type counters if
\* its type is required or added by Silverwolf and in none otherwise.
EveryCharacterTalliedOnce ==
    (pc = "node_scored" /\ NodeSet # {}) =>
        LET c == TalliesOf(NodeSet)
            need == cal_need_combat_type(NodeSet, node_combat_types[1])
        IN  /\ c.attack_cnt + c.survival_cnt + c.support_cnt = Cardinality(NodeSet)
            /\ Cur.cnt_score = cnt_base * Cardinality(NodeSet)
            /\ Cur.cnt_score = cnt_base * node_character_cnt(current_mission_team.node_team_list[1])
            /\ MatchTallies(NodeSet)
                  = Cardinality({d \in NodeSet : CharacterCombatType(d) \in need.cal})
            /\ \A d \in NodeSet :
                  /\ TalliesOf({d}).attack_cnt + TalliesOf({d}).survival_cnt
                        + TalliesOf({d}).support_cnt = 1
                  /\ MatchTallies({d})
                        = IF CharacterCombatType(d) \in need.cal THEN 1 ELSE 0

\* a full node with Silverwolf: characters of a required type, of a type
\* she adds, attackers and others
EveryCharacterTalliedOnceWitness ==
    /\ pc = "node_scored"
    /\ node_combat_types[1] = <<"Fire">>
    /\ NodeSet = {AttackFire, AttackIce, SILVERWOLF, SurvivalFire}
    /\ Cur.cnt_score = 400000000
    /\ MatchTallies(NodeSet) = 4

\* a mapping of the modules to a node (from 1) or to 0, unused
Placements == [1..Len(config_module_list) -> 0..total_node_cnt]

\* the modules a mapping gives to a node, in the order of the module list
ModulesAt(place, node) ==
    LET upto[i \in 0..Len(config_module_list)] ==
            IF i = 0 THEN << >>
            ELSE IF place[i] = node THEN Append(upto[i - 1], config_module_list[i])
                 ELSE upto[i - 1]
    IN  upto[Len(config_module_list)]

\* the mapping passes the checks of the loop when its modules are placed in
\* the order of the module list: in a node the categories do not go down
\* and the characters are four at most, and no character is placed twice
Admissible(place) ==
    /\ \A node \in 1..total_node_cnt :
          LET modules == ModulesAt(place, node)
          IN  /\ \A i \in 1..(Len(modules) - 1) :
                    next_node_phase(modules[i]) <= next_node_phase(modules[i + 1])
              /\ SumSeq([i \in 1..Len(modules) |-> Len(modules[i].character_id_list)]) <= 4
    /\ \A i, j \in 1..Len(config_module_list) :
          (i < j /\ place[i] # 0 /\ place[j] # 0)
             => Range(config_module_list[i].character_id_list)
                   \cap Range(config_module_list[j].character_id_list) = {}

\* the node teams the mapping makes
PlacedNodeTeams(place) ==
    [node \in 1..total_node_cnt |->
        LET modules == ModulesAt(place, node)
        IN  [module_list |-> modules,
             character_id_set |-> UNION {Range(modules[i].character_id_list) :
                                             i \in 1..Len(modules)},
             node_dfs_phase |-> IF modules = << >> THEN 0
                                ELSE next_node_phase(modules[Len(modules)])]]

\* the module fits the node the loop is at: category, room, no character in use
FitsNode ==
    /\ next_node_phase(ActiveModule)
          >= current_mission_team.node_team_list[Top.node_idx + 1].node_dfs_phase
    /\ ~OverCapacity(Top.node_idx, ActiveModule)
    /\ NodesSharing(ActiveModule) = {}

\* C26: a call of dfs that is neither a leaf nor pruned takes the nodes in
\* ascending order from the first, recurses with the module added on each
\* node it fits (category, room, characters not in use) and on no other,
\* and after the last node always recurses without the module, the team
\* being the one it was called with; with the prune taken out, the leaves
\* are, each once, the teams of the mappings of the modules to a node or to
\* unused that pass those checks in the order of the module list.
BranchingIsComplete ==
    /\ [][/\ ((Searching /\ Top.at = "entry" /\ stack' # Tail(stack)) =>
                (stack' = <<[Top EXCEPT !.at = "loop", !.node_idx = 0]>> \o Tail(stack)))
           /\ ((Searching /\ Top.at = "loop" /\ Top.node_idx < total_node_cnt /\ FitsNode) =>
                (/\ stack' = <<Frame(Top.current_module_idx + 1),
                               [Top EXCEPT !.at = "after_add",
                                           !.temp_phase = current_mission_team
                                               .node_team_list[Top.node_idx + 1].node_dfs_phase]>>
                                \o Tail(stack)
                 /\ current_mission_team'.node_team_list[Top.node_idx + 1].module_list
                       = Append(current_mission_team.node_team_list[Top.node_idx + 1].module_list,
                                ActiveModule)))
           /\ ((Searching /\ Top.at = "loop" /\ Top.node_idx < total_node_cnt /\ ~FitsNode) =>
                (/\ stack' = <<[Top EXCEPT !.node_idx = @ + 1]>> \o Tail(stack)
                 /\ current_mission_team' = current_mission_team))
           /\ ((Searching /\ Top.at = "after_add") =>
                (stack' = <<[Top EXCEPT !.at = "loop", !.node_idx = @ + 1]>> \o Tail(stack)))
           /\ ((Searching /\ Top.at = "loop" /\ Top.node_idx = total_node_cnt) =>
                (/\ stack' = <<Frame(Top.current_module_idx + 1),
                               [Top EXCEPT !.at = "after_skip"]>> \o Tail(stack)
                 /\ current_mission_team' = current_mission_team
                 /\ current_mission_team.node_team_list = PendingAdds(Tail(stack))))]_vars
    /\ [](pc = "done" =>
            LET leaves == dfs_leaves(config_module_list, NewMissionTeam(node_combat_types), 0)
            IN  /\ \A i, j \in 1..Len(leaves) : leaves[i] = leaves[j] => i = j
                /\ {leaves[i].node_team_list : i \in 1..Len(leaves)}
                      = {PlacedNodeTeams(place) : place \in {p \in Placements : Admissible(p)}})

\* a search over two nodes and three modules that found a team, where some
\* mappings are refused and one that leaves a module unused fills the nodes
BranchingIsCompleteWitness ==
    /\ pc = "done"
    /\ total_node_cnt = 2
    /\ Len(config_module_list) = 3
    /\ best_mission_team # None
    /\ \E place \in Placements : ~Admissible(place)
    /\ \E place \in Placements :
          /\ Admissible(place)
          /\ \E i \in 1..3 : place[i] = 0
          /\ \A node \in 1..2 : ModulesAt(place, node) # << >>

(***************************************************************************)
(* ForgottenHallRecord                                                     *)
(***************************************************************************)
MaxMissions == 3

\* the missions of the hall (10 in the source) and the stars of one mission
Missions == 1..MaxMissions
mission_full_star == 3
MissionStars == 0..mission_full_star

\* stars[mission_num] = star on a dict
DictPut(dict, key, value) ==
    [k \in (DOMAIN dict) \cup {key} |-> IF k = key THEN value ELSE dict[k]]

\* the sum of dict.values()
RECURSIVE DictSum(_)
DictSum(dict) ==
    IF DOMAIN dict = {} THEN 0
    ELSE LET k == CHOOSE x \in DOMAIN dict : TRUE
         IN  dict[k] + DictSum([x \in (DOMAIN dict) \ {k} |-> dict[x]])

\* AppRunRecord.update: the key-value store keeps the value under the key
record_update(record, key, value) == [record EXCEPT ![key] = value]

\* AppRunRecord.update_status
update_status(record, new_status) == record_update(record, "status", new_status)

\* the setter of star
set_star(record, new_value) == record_update(record, "star", new_value)

reset_record(record) ==
    record_update(set_star(update_status(record, "WAIT"), 0), "mission_stars", EmptyDict)

get_mission_star(record, mission_num) ==
    IF mission_num \in DOMAIN record.mission_stars
    THEN record.mission_stars[mission_num]
    ELSE 0

\* a bug that takes the new sum for the total star even when it is lower
update_mission_star_sets_total(record, mission_num, star) ==
    LET stars == DictPut(record.mission_stars, mission_num, star)
    IN  set_star(record_update(record, "mission_stars", stars), DictSum(stars))

update_mission_star(record, mission_num, star) ==
    LET stars == DictPut(record.mission_stars, mission_num, star)
        written == record_update(record, "mission_stars", stars)
        total_star == DictSum(stars)
    IN  IF total_star > written.star THEN set_star(written, total_star) ELSE written

\* the total star that CheckForgottenHallStar may read from the screen
full_star == 30
StarReadings == {0, 1, full_star - 1, full_star}

\* the search and the round are not part of the record's life
RecordOnly ==
    UNCHANGED <<node_combat_types, config_module_list, current_mission_team,
                best_mission_team, stack, pc, result, combine_op>>

InitRecord ==
    /\ node_combat_types = << >>
    /\ config_module_list = << >>
    /\ current_mission_team = NewMissionTeam(node_combat_types)
    /\ best_mission_team = None
    /\ stack = << >>
    /\ pc = "record"
    /\ result = None
    /\ run_record = NewRecord
    /\ combine_op = None

\* ForgottenHallApp._update_mission_star
UpdateMissionStar ==
    /\ \E mission_num \in Missions, star \in MissionStars :
          run_record' = update_mission_star(run_record, mission_num, star)
    /\ RecordOnly

\* ForgottenHallApp._update_star: the total star is assigned directly
UpdateStar ==
    /\ \E star \in StarReadings : run_record' = set_star(run_record, star)
    /\ RecordOnly

ResetRecord ==
    /\ run_record' = reset_record(run_record)
    /\ RecordOnly

NextRecord ==
    \/ UpdateMissionStar
    \/ UpdateStar
    \/ ResetRecord

SpecRecord == InitRecord /\ [][NextRecord]_vars

\* C29: a call of update_mission_star leaves a total star that is at least
\* the sum of the stars of the missions written and at least the total
\* before it, so after any calls in a row the total is at least the sum;
\* get_mission_star then returns the star written for that mission and
\* what it returned before for the others, and 0 for a mission never
\* written; reset_record leaves the total 0 and no star of any mission.
TotalStarCoversMissions ==
    /\ [][\A mission_num \in Missions, star \in MissionStars :
            (run_record' = update_mission_star(run_record, mission_num, star)) =>
               (/\ run_record'.star >= DictSum(run_record'.mission_stars)
                /\ run_record'.star >= run_record.star
                /\ get_mission_star(run_record', mission_num) = star
                /\ \A other \in Missions \ {mission_num} :
                      get_mission_star(run_record', other)
                         = get_mission_star(run_record, other))]_vars
    /\ [][(run_record' = reset_record(run_record)) =>
             (/\ run_record'.star = 0
              /\ run_record'.mission_stars = EmptyDict
              /\ \A mission_num \in Missions :
                    get_mission_star(run_record', mission_num) = 0)]_vars
    /\ [](\A mission_num \in Missions :
             mission_num \notin DOMAIN run_record.mission_stars
                => get_mission_star(run_record, mission_num) = 0)

\* two missions were written with 3 stars and one of them again with 0:
\* the total stays at 6 above the sum of 3
TotalStarCoversMissionsWitness ==
    /\ pc = "record"
    /\ DOMAIN run_record.mission_stars = {1, 2}
    /\ get_mission_star(run_record, 1) = 3
    /\ get_mission_star(run_record, 2) = 0
    /\ run_record.star = 6

(***************************************************************************)
(* ForgottenHallApp: one round of the application                          *)
(***************************************************************************)
\* an operation of the round; mission_num is 0 but for the challenges
Operation(name, mission_num) == [name |-> name, mission_num |-> mission_num]

op_success == Operation("op_success", 0)
op1 == Operation("op1", 0)
op2 == Operation("op2", 0)
op3 == Operation("op3", 0)
op4 == Operation("op4", 0)
op5 == Operation("op5", 0)
op6 == Operation("op6", 0)
get_reward == Operation("get_reward", 0)
back_to_menu == Operation("back_to_menu", 0)

\* OperationSuccess(ctx, '3'): the start of the chain of challenges
simulated_last_mission == Operation("last_mission", 0)

ChallengeForgottenHallMission(mission_num) == Operation("mission", mission_num)

\* status=None
NoStatus == ""

Digits == <<"0", "1", "2", "3", "4", "5", "6", "7", "8", "9">>

\* str(star) of a star count
RECURSIVE str(_)
str(n) ==
    IF n < 10 THEN Digits[n + 1]
    ELSE str(n \div 10) \o Digits[(n % 10) + 1]

\* an edge of the graph: success, status and ignore_status have the
\* defaults True, None and False
StatusCombineOperationEdge(op_from, op_to, status, ignore_status) ==
    [op_from |-> op_from, op_to |-> op_to, success |-> TRUE,
     status |-> status, ignore_status |-> ignore_status]

OperationResult(success, status) == [success |-> success, status |-> status]

round_success(status) == OperationResult(TRUE, status)

round_fail == OperationResult(FALSE, NoStatus)

\* the edges from the menu to the star check and out of the star check
menu_edges ==
    <<StatusCombineOperationEdge(op1, op2, NoStatus, FALSE),
      StatusCombineOperationEdge(op2, op3, NoStatus, FALSE),
      StatusCombineOperationEdge(op3, op4, NoStatus, FALSE),
      StatusCombineOperationEdge(op4, op5, NoStatus, FALSE),
      StatusCombineOperationEdge(op5, op6, NoStatus, FALSE),
      StatusCombineOperationEdge(op6, get_reward, str(full_star), FALSE),
      StatusCombineOperationEdge(op6, simulated_last_mission, NoStatus, TRUE)>>

\* a bug that enters a mission whatever the mission before it ended with
mission_edges_any_status(last_mission, mission) ==
    <<StatusCombineOperationEdge(last_mission, mission, NoStatus, TRUE),
      StatusCombineOperationEdge(mission, op_success, NoStatus, TRUE)>>

\* the two edges added for a mission that is challenged
mission_edges(last_mission, mission) ==
    <<StatusCombineOperationEdge(last_mission, mission, str(mission_full_star), FALSE),
      StatusCombineOperationEdge(mission, op_success, NoStatus, TRUE)>>

\* for i in range(10): the missions from the i-th on, after last_mission;
\* gives the missions challenged, their edges and the last of them
RECURSIVE challenge_chain(_, _, _)
challenge_chain(record, i, last_mission) ==
    IF i > MaxMissions
    THEN [ops |-> << >>, edges |-> << >>, last_mission |-> last_mission]
    ELSE IF get_mission_star(record, i) = mission_full_star
         THEN challenge_chain(record, i + 1, last_mission)
         ELSE LET mission == ChallengeForgottenHallMission(i)
                  rest == challenge_chain(record, i + 1, mission)
              IN  [ops |-> <<mission>> \o rest.ops,
                   edges |-> mission_edges(last_mission, mission) \o rest.edges,
                   last_mission |-> rest.last_mission]

\* a bug that forgets the edge from the last mission to the reward
closing_edges_without_reward(last_mission) ==
    <<StatusCombineOperationEdge(get_reward, back_to_menu, NoStatus, FALSE)>>

\* the edges added after the loop
closing_edges(last_mission) ==
    <<StatusCombineOperationEdge(last_mission, get_reward, NoStatus, TRUE),
      StatusCombineOperationEdge(get_reward, back_to_menu, NoStatus, FALSE)>>

\* ops and edges of _execute_one_round
round_ops(record) ==
    <<op_success, op1, op2, op3, op4, op5, op6, get_reward, simulated_last_mission>>
        \o challenge_chain(record, 1, simulated_last_mission).ops
        \o <<back_to_menu>>

round_edges(record) ==
    LET chain == challenge_chain(record, 1, simulated_last_mission)
    IN  menu_edges \o chain.edges \o closing_edges(chain.last_mission)

\* StatusCombineOperation: the operation that follows op after result, if
\* any.  An edge is taken only when its success is that of the result; an
\* edge whose status is the status of the result comes first, and else the
\* edge that ignores the status, the last one added when there are several.
next_op(edges, op, op_result) ==
    LET Leaves(e) == e.op_from = op /\ e.success = op_result.success
        Matches(e) == Leaves(e) /\ ~e.ignore_status /\ e.status = op_result.status
        Ignores(e) == Leaves(e) /\ e.ignore_status
        matching == SelectSeq(edges, Matches)
        ignoring == SelectSeq(edges, Ignores)
    IN  IF matching # << >> THEN Some(matching[1].op_to)
        ELSE IF ignoring # << >> THEN Some(ignoring[Len(ignoring)].op_to)
        ELSE None

\* StatusCombineOperation(ctx, ops, edges): it starts with the first
\* operation that ends no edge and is the start of one
StatusCombineOperation(ops, edges) ==
    [ops |-> ops, edges |-> edges, current |-> op1, path |-> << >>]

\* a bug that takes the result alone for the status of the run
after_operation_done_ignores_star(record, op_result) ==
    IF ~op_result.success
    THEN update_status(record, "FAIL")
    ELSE update_status(record, "SUCCESS")

after_operation_done(record, op_result) ==
    IF ~op_result.success \/ record.star < full_star
    THEN update_status(record, "FAIL")
    ELSE update_status(record, "SUCCESS")

\* the records a run may start with: stars of missions written by earlier
\* runs since the last reset
RecordsBefore ==
    {[star |-> DictSum(stars), mission_stars |-> stars, status |-> "WAIT"] :
        stars \in UNION {[written -> MissionStars] : written \in SUBSET Missions}}

\* the search is not part of the round
AppOnly ==
    UNCHANGED <<node_combat_types, config_module_list, current_mission_team,
                best_mission_team, stack>>

InitApp ==
    /\ node_combat_types = << >>
    /\ config_module_list = << >>
    /\ current_mission_team = NewMissionTeam(node_combat_types)
    /\ best_mission_team = None
    /\ stack = << >>
    /\ pc = "init_before_execute"
    /\ result = None
    /\ run_record \in RecordsBefore
    /\ combine_op = None

InitBeforeExecute ==
    /\ pc = "init_before_execute"
    /\ run_record' = update_status(run_record, "RUNNING")
    /\ pc' = "execute_one_round"
    /\ UNCHANGED <<result, combine_op>>
    /\ AppOnly

\* _execute_one_round up to combine_op.execute()
ExecuteOneRound ==
    /\ pc = "execute_one_round"
    /\ combine_op' = Some(StatusCombineOperation(round_ops(run_record),
                                                 round_edges(run_record)))
    /\ pc' = "combine_op"
    /\ UNCHANGED <<result, run_record>>
    /\ AppOnly

\* the current operation ended with op_result: the run goes on with the
\* next operation, or ends with op_result when there is none
OperationDone(op_result) ==
    LET running == TheValue(combine_op)
        next == next_op(running.edges, running.current, op_result)
        done == [running EXCEPT
                    !.path = Append(@, [op |-> running.current, result |-> op_result])]
    IN  IF next = None
        THEN /\ combine_op' = Some(done)
             /\ result' = Some(OperationResult(op_result.success, NoStatus))
             /\ pc' = "after_operation_done"
        ELSE /\ combine_op' = Some([done EXCEPT !.current = TheValue(next)])
             /\ result' = result
             /\ pc' = pc

\* an operation on the screen that reports no status
ExecuteOperation ==
    /\ pc = "combine_op"
    /\ TheValue(combine_op).current \in {op1, op2, op3, op4, op5, get_reward, back_to_menu}
    /\ \E success \in BOOLEAN :
          OperationDone(IF success THEN round_success(NoStatus) ELSE round_fail)
    /\ UNCHANGED run_record
    /\ AppOnly

\* OperationSuccess(ctx) and OperationSuccess(ctx, '3')
ExecuteOperationSuccess ==
    /\ pc = "combine_op"
    /\ TheValue(combine_op).current \in {op_success, simulated_last_mission}
    /\ OperationDone(IF TheValue(combine_op).current = simulated_last_mission
                     THEN round_success(str(mission_full_star))
                     ELSE round_success(NoStatus))
    /\ UNCHANGED run_record
    /\ AppOnly

\* CheckForgottenHallStar(ctx, self._update_star): the star read is given
\* to the callback and is the status of the result
ExecuteCheckForgottenHallStar ==
    /\ pc = "combine_op"
    /\ TheValue(combine_op).current = op6
    /\ \E success \in BOOLEAN, star \in StarReadings :
          IF success
          THEN /\ run_record' = set_star(run_record, star)
               /\ OperationDone(round_success(str(star)))
          ELSE /\ run_record' = run_record
               /\ OperationDone(round_fail)
    /\ AppOnly

\* ChallengeForgottenHallMission(ctx, i + 1, 2, self._update_mission_star,
\* self._cal_team_member): the star won is given to the callback and is the
\* status of the result
ExecuteChallengeForgottenHallMission ==
    /\ pc = "combine_op"
    /\ TheValue(combine_op).current.name = "mission"
    /\ \E success \in BOOLEAN, star \in MissionStars :
          IF success
          THEN /\ run_record' = update_mission_star(
                                    run_record, TheValue(combine_op).current.mission_num, star)
               /\ OperationDone(round_success(str(star)))
          ELSE /\ run_record' = run_record
               /\ OperationDone(round_fail)
    /\ AppOnly

AfterOperationDone ==
    /\ pc = "after_operation_done"
    /\ run_record' = after_operation_done(run_record, TheValue(result))
    /\ pc' = "app_done"
    /\ UNCHANGED <<result, combine_op>>
    /\ AppOnly

NextApp ==
    \/ InitBeforeExecute
    \/ ExecuteOneRound
    \/ ExecuteOperation
    \/ ExecuteOperationSuccess
    \/ ExecuteCheckForgottenHallStar
    \/ ExecuteChallengeForgottenHallMission
    \/ AfterOperationDone

SpecApp == InitApp /\ [][NextApp]_vars

\* C30: when a run finishes, _after_operation_done sets the status of the
\* record to SUCCESS exactly when the result is successful and the total
\* star recorded is at least 30, and to FAIL in every other case; the
\* stars of the record are left as they were.
StatusSuccessIffFullStar ==
    [][(pc = "after_operation_done" /\ pc' = "app_done") =>
          (/\ ((run_record'.status = "SUCCESS")
                  <=> (TheValue(result).success /\ run_record.star >= 30))
           /\ ((run_record'.status = "FAIL")
                  <=> ~(TheValue(result).success /\ run_record.star >= 30))
           /\ run_record.status = "RUNNING"
           /\ run_record'.star = run_record.star
           /\ run_record'.mission_stars = run_record.mission_stars)]_vars

\* a run that ended well with 30 stars read at the star check, reward taken
StatusSuccessIffFullStarWitness ==
    /\ pc = "app_done"
    /\ run_record.status = "SUCCESS"
    /\ run_record.star = 30
    /\ TheValue(result).success
    /\ \E k \in 1..Len(TheValue(combine_op).path) :
          TheValue(combine_op).path[k].op = get_reward

\* the edges of a graph that end in op
EdgesInto(graph, op) ==
    LET Into(e) == e.op_to = op IN SelectSeq(graph.edges, Into)

\* the challenge that comes before mission i in the chain built from
\* record, or the simulated start when none does
PreviousInChain(record, i) ==
    LET earlier == {j \in Missions : j < i /\ get_mission_star(record, j) # 3}
    IN  IF earlier = {} THEN simulated_last_mission
        ELSE ChallengeForgottenHallMission(CHOOSE j \in earlier : \A other \in earlier : other <= j)

\* the operations started so far in a run, in order
Started ==
    LET running == TheValue(combine_op)
        executed == [k \in 1..Len(running.path) |-> running.path[k].op]
    IN  IF pc = "combine_op" THEN Append(executed, running.current) ELSE executed

\* C27: in the graph built by _execute_one_round a mission recorded with 3
\* stars has no challenge node and no edge, and a mission that is
\* challenged has exactly one edge into its node, which leaves the
\* challenge before it in the chain (the simulated start for the first),
\* asks for status '3' and does not ignore the status; and in every run a
\* mission is started only after every mission challenged before it in the
\* run ended with success, status '3' and 3 stars in the record.
MissionNeedsFullStarBefore ==
    /\ [][(pc = "execute_one_round" /\ pc' = "combine_op") =>
            LET graph == TheValue(combine_op')
                nodes == {graph.ops[k] : k \in 1..Len(graph.ops)}
            IN  \A i \in Missions :
                   LET mission == ChallengeForgottenHallMission(i)
                       into == EdgesInto(graph, mission)
                   IN  IF get_mission_star(run_record, i) = 3
                       THEN /\ mission \notin nodes
                            /\ \A k \in 1..Len(graph.edges) :
                                  /\ graph.edges[k].op_from # mission
                                  /\ graph.edges[k].op_to # mission
                       ELSE /\ mission \in nodes
                            /\ Len(into) = 1
                            /\ into[1].op_from = PreviousInChain(run_record, i)
                            /\ into[1].status = "3"
                            /\ ~into[1].ignore_status]_vars
    /\ []((combine_op # None) =>
            \A k \in 1..Len(Started) :
               (Started[k].name = "mission") =>
                  (/\ k > 1
                   /\ TheValue(combine_op).path[k - 1].result = round_success("3")
                   /\ \A before \in 1..(k - 1) :
                         (Started[before].name = "mission") =>
                            (/\ TheValue(combine_op).path[before].result = round_success("3")
                             /\ Started[before].mission_num < Started[k].mission_num
                             /\ get_mission_star(run_record, Started[before].mission_num) = 3)))

\* a run that skipped mission 1, recorded with 3 stars, won 3 stars in
\* mission 2 and went on to mission 3
MissionNeedsFullStarBeforeWitness ==
    /\ pc = "combine_op"
    /\ TheValue(combine_op).current = ChallengeForgottenHallMission(3)
    /\ ChallengeForgottenHallMission(1) \notin
          {TheValue(combine_op).ops[k] : k \in 1..Len(TheValue(combine_op).ops)}
    /\ \E k \in 1..Len(TheValue(combine_op).path) :
          /\ TheValue(combine_op).path[k].op = ChallengeForgottenHallMission(2)
          /\ TheValue(combine_op).path[k].result = round_success("3")

\* the last challenge of the chain of a graph, if it has any
LastInChain(graph) ==
    LET challenged == {graph.ops[k].mission_num : k \in
                          {n \in 1..Len(graph.ops) : graph.ops[n].name = "mission"}}
    IN  IF challenged = {} THEN simulated_last_mission
        ELSE ChallengeForgottenHallMission(
                 CHOOSE i \in challenged : \A other \in challenged : other <= i)

\* the operation started right after the k-th of the run is op
FollowedBy(k, op) == k < Len(Started) /\ Started[k + 1] = op

====
